---- MODULE Spec2Model ----
(***************************************************************************)
(* SWIFT (SWAN-community/swift-go): the storage operation that bounces a   *)
(* browser through the nodes of a network, and the conflict resolution of  *)
(* pairs.  Times are natural numbers (ticks); ZeroTime is Go's zero        *)
(* time.Time.  Strings that the code splits, joins or trims are sequences  *)
(* of one-character strings.                                               *)
(***************************************************************************)
EXTENDS Integers, Sequences, FiniteSets, TLC

(***************************************************************************)
(* Bounds of the model.                                                    *)
(***************************************************************************)
MaxTime == 3
MaxRetries == 1
MaxHash == 3
MaxWords == 2
MaxCreated == 2

(***************************************************************************)
(* Program constants.                                                      *)
(***************************************************************************)
ZeroTime == 0
conflictInvalid == 0
conflictOldest == 1
conflictNewest == 2
conflictAdd == 3
roleAccess == 0
roleStorage == 1
roleShare == 2
StorageOperationTimeout == 2
HomeNodeTimeout == 2
ConfigNodeCount == 3
ProbeLifetime == 1
pairListSeparator == <<"\r", "\n">>

\* No storage operation of the model needs more requests than this.
MaxGets == ConfigNodeCount * (MaxRetries + 1) + 1

NoNode == ""
Nil == [nil |-> TRUE]

Min(S) == CHOOSE x \in S : \A y \in S : x <= y
Max(S) == CHOOSE x \in S : \A y \in S : x >= y
Range(f) == {f[i] : i \in DOMAIN f}

(***************************************************************************)
(* strings.Split, strings.Join and strings.TrimSpace on character          *)
(* sequences.                                                              *)
(***************************************************************************)
IndexOf(s, sep) ==
  LET hits == {i \in 1..(Len(s) - Len(sep) + 1) :
                 SubSeq(s, i, i + Len(sep) - 1) = sep}
  IN IF hits = {} THEN 0 ELSE Min(hits)

RECURSIVE Split(_, _)
Split(s, sep) ==
  LET i == IndexOf(s, sep)
  IN IF i = 0 THEN <<s>>
     ELSE <<SubSeq(s, 1, i - 1)>> \o Split(SubSeq(s, i + Len(sep), Len(s)), sep)

RECURSIVE Join(_, _)
Join(v, sep) ==
  IF Len(v) = 0 THEN <<>>
  ELSE IF Len(v) = 1 THEN v[1]
  ELSE v[1] \o sep \o Join(Tail(v), sep)

IsSpace(ch) == ch \in {" ", "\t", "\n", "\r"}

TrimSpace(s) ==
  LET keep == {i \in 1..Len(s) : ~IsSpace(s[i])}
  IN IF keep = {} THEN <<>>
     ELSE SubSeq(s, Min(keep), CHOOSE j \in keep : \A k \in keep : k <= j)

(***************************************************************************)
(* io.go: the primitives of the byte encoding.  A buffer is a sequence of  *)
(* bytes.  Instants are counted in days: ZeroTime is time.Time{}, and      *)
(* ioDateBase, 2020-01-01, is the first day of the model.  The zero time   *)
(* is further from ioDateBase than a Duration holds, so Sub saturates.     *)
(***************************************************************************)
ioDateBase == 1
maxDuration == 106751
NUL == 0

byte(i) == i % 256

failed(r) == "err" \in DOMAIN r

writeByte(b, i) == Append(b, i)

readByte(b) ==
  IF Len(b) < 1 THEN [err |-> "bytes incorrect for Byte"]
  ELSE [value |-> b[1], rest |-> Tail(b)]

writeUint16(b, i) == b \o <<i % 256, (i \div 256) % 256>>

readUint16(b) ==
  IF Len(b) < 2 THEN [err |-> "bytes incorrect for Uint16"]
  ELSE [value |-> b[1] + 256 * b[2], rest |-> SubSeq(b, 3, Len(b))]

writeByteArray(b, v) == writeUint16(b, Len(v)) \o v

readByteArray(b) ==
  LET l == readUint16(b)
  IN IF failed(l) THEN l
     ELSE [value |-> SubSeq(l.rest, 1, Min({l.value, Len(l.rest)})),
           rest |-> SubSeq(l.rest, l.value + 1, Len(l.rest))]

\* GobEncode and GobDecode of an instant: a blob that holds the instant.
writeTime(b, t) == writeByteArray(b, <<t>>)

readTime(b) ==
  LET d == readByteArray(b)
  IN IF failed(d) THEN d
     ELSE [value |-> IF Len(d.value) = 1 THEN d.value[1] ELSE ZeroTime,
           rest |-> d.rest]

writeString(b, s) == b \o s \o <<NUL>>

RECURSIVE readString(_)
readString(b) ==
  IF b = <<>> THEN [err |-> "EOF"]
  ELSE IF b[1] = NUL THEN [value |-> <<>>, rest |-> Tail(b)]
  ELSE LET r == readString(Tail(b))
       IN IF failed(r) THEN r
          ELSE [value |-> <<b[1]>> \o r.value, rest |-> r.rest]

\* int(t.Sub(ioDateBase).Hours() / 24)
daysSince(t) == IF t = ZeroTime THEN -maxDuration ELSE t - ioDateBase

writeDate(b, t) ==
  LET i == daysSince(t)
  IN writeByte(writeByte(b, byte(i \div 256)), byte(i % 256))

readDate(b) ==
  IF Len(b) < 2 THEN [err |-> "EOF"]
  ELSE [value |-> ioDateBase + (b[1] * 256 + b[2]),
        rest |-> SubSeq(b, 3, Len(b))]

(***************************************************************************)
(* pair.go: merging and conflict resolution.                               *)
(***************************************************************************)
emptyValue ==
  [key |-> "", created |-> ZeroTime, expires |-> ZeroTime, value |-> <<>>,
   conflict |-> conflictInvalid, cookieWriteTime |-> ZeroTime]

isEmpty(p) == p.value = <<>>

RECURSIVE appendMissing(_, _)
appendMissing(v, cv) ==
  IF Len(cv) = 0 THEN v
  ELSE IF \E i \in 1..Len(v) : v[i] = cv[1]
       THEN appendMissing(v, Tail(cv))
       ELSE appendMissing(Append(v, cv[1]), Tail(cv))

mergeValues(o, c) ==
  TrimSpace(Join(appendMissing(Split(o.value, pairListSeparator),
                               Split(c.value, pairListSeparator)),
                 pairListSeparator))

mergePairs(o, c, t) ==
  IF o.value # c.value
  THEN [key |-> o.key,
        created |-> t,
        expires |-> IF o.expires > c.expires THEN o.expires ELSE c.expires,
        value |-> mergeValues(o, c),
        conflict |-> conflictAdd,
        cookieWriteTime |-> ZeroTime]
  ELSE c

resolveConflictOldest(o, c) ==
  IF o.created < c.created THEN o
  ELSE IF c.created < o.created THEN c
  ELSE IF o.cookieWriteTime > c.cookieWriteTime THEN o
  ELSE c

\* Variant: a tie of the creation times goes to the operation pair.
resolveConflictNewest_TieToOperation(o, c) ==
  IF o.created >= c.created THEN o ELSE c

resolveConflictNewest(o, c) ==
  IF o.created > c.created THEN o
  ELSE IF c.created > o.created THEN c
  ELSE IF o.cookieWriteTime > c.cookieWriteTime THEN o
  ELSE c

resolveConflict(o, c, t) ==
  IF o = Nil /\ c = Nil THEN emptyValue
  ELSE IF c = Nil THEN o
  ELSE IF o = Nil THEN c
  ELSE IF o.conflict = conflictInvalid
       THEN [err |-> "Conflict flag is not initialized"]
  ELSE IF o.conflict = conflictNewest THEN resolveConflictNewest(o, c)
  ELSE IF o.conflict = conflictOldest THEN resolveConflictOldest(o, c)
  ELSE IF o.conflict = conflictAdd THEN mergePairs(o, c, t)
  ELSE o

(***************************************************************************)
(* State of the storage operation (the bounce) and of the pair checks.     *)
(***************************************************************************)
VARIABLES
  now,        \* time.Now().UTC()
  store,      \* services.store: domain -> node (role, hash, created, ...)
  network,    \* nodes collection of the network: active and hash orders
  alive,      \* node.alive per domain
  accessed,   \* node.accessed per domain
  jar,        \* browser: pair cookies per node domain and key
  probe,      \* browser: expiry of the "t" cookie per node domain
  cookiesOn,  \* browser: stores the cookies of a response
  phase,      \* "idle", "inflight", "warned", "complete", "failed"
  url,        \* the storage URL the browser holds: host and operation
  hop,        \* what the last handled request did
  gets,       \* storage GET requests issued since the last Create
  run,        \* storage GET requests since the last Create or retry
  home,       \* the home node chosen by the last Create
  retries,    \* number of warning links followed so far
  form,       \* the pairs the last Create made from the form
  po, pc, pr, \* pair check: operation pair, cookie pair, resolved pair
  countForm,  \* count check: the values of nodeCount in the form
  countRing,  \* count check: the nodes collection of the network
  countOut,   \* count check: what setCount left in the operation
  other,      \* nodes check: the nodes collection of another web server
  lookup,     \* nodes check: the last home node lookup and its results
  last,       \* nodes check: the last store operation and the order times
  nodeSecrets, \* secrets check: node.secrets
  sorted,     \* secrets check: sortSecrets has run
  used,       \* secrets check: the secret of the last encrypt
  sent,       \* codec check: the operation that is written
  buffer,     \* codec check: the bytes asByteArray returned
  received,   \* codec check: the operation read from the bytes
  sts,        \* newStorageManager: the stores, configured and discovered
  idx,        \* newStorageManager: the index i of the store in turn
  pending,    \* newStorageManager: the share nodes of sts[i] still to visit
  checkedNodes, \* newStorageManager: the share domains evaluated
  called,     \* the rosters callShare returned, by share domain
  built,      \* newStorageManager: sm, its stores and its nodes
  at,         \* newStorageManager: where the construction is
  maxStores,  \* Configuration.MaxStores
  backends,   \* the stores the storage service was configured with
  sm,         \* storageService.store: the stores and the nodes of the manager
  reply,      \* the last call of the storage manager and what it returned
  maps,       \* Local: the generation of l.nodes and of l.networks
  mutex,      \* Local: l.mutex, free or held by the refresh
  task,       \* Local.refresh: where it is and the generation it fetched
  reader,     \* a request: the generations its getNode and getNodes found
  svc,        \* NewStorageService: the storage service it made and its refresher works on
  services,   \* Services: the copy of the storage service the handlers use
  refresher,  \* startStorageService: where it is and the manager it built
  request,    \* a request: the manager each of its lookups used
  known,      \* aliveService: alive and accessed of each node of a.store.nodes
  clock,      \* aliveService: time.Now()
  loop,       \* aliveLoop: where it is, the nodes still to poll, the next tick
  poll,       \* pollNode: the call in flight or the last one made
  disk,       \* Local: the records of the nodes file and of the secrets file
  handlerNodes, \* Services: the domains of sm.nodes of the manager the handlers use
  requests,   \* HandlerRegister: the requests served, which is the time
  first,      \* the first registration of each domain that was stored
  registry,   \* storage manager: the network and the role of each node known
  creation,   \* Create: the host, the accessNode parameter and the outcome
  given,      \* a hop: which pairs have a cookie, whether nodes remain, the branch taken
  doing,      \* a hop: the pair newOperationFromRequest is at and the steps still to do
  log,        \* a hop: the steps done, in order
  nodesFile,  \* Local.getNodes: the networks of the nodes file, and whether it can be read
  loaded,     \* Local.getNodes: l.networks, the networks in memory
  stack,      \* Local.getNodes: the calls of getNodes that have not returned
  outcome,    \* Local.getNodes: the network asked for and what the call returned
  written,    \* refresh check: the domains of the nodes in the store
  started,    \* refresh check: the storageService startStorageService runs on
  kept,       \* refresh check: the storageService that Services keeps
  ticking,    \* refresh check: where startStorageService is in its loop
  pollers,    \* refresh check: the managers whose aliveLoop runs
  seen        \* refresh check: the last getNode of a handler

vars == <<now, store, network, alive, accessed, jar, probe, cookiesOn, phase,
          url, hop, gets, run, home, retries, form, po, pc, pr,
          countForm, countRing, countOut, other, lookup, last,
          nodeSecrets, sorted, used, sent, buffer, received,
          sts, idx, pending, checkedNodes, called, built, at, maxStores,
          backends, sm, reply,
          maps, mutex, task, reader,
          svc, services, refresher, request,
          known, clock, loop, poll,
          disk, handlerNodes, requests, first,
          registry, creation,
          given, doing, log,
          nodesFile, loaded, stack, outcome,
          written, started, kept, ticking, pollers, seen>>

bounceVars == <<now, store, network, alive, accessed, jar, probe, cookiesOn,
                phase, url, hop, gets, run, home, retries, form>>

pairVars == <<po, pc, pr>>
countVars == <<countForm, countRing, countOut>>
nodesVars == <<other, lookup, last>>
secretVars == <<nodeSecrets, sorted, used>>
codecVars == <<sent, buffer, received>>
constructVars == <<sts, idx, pending, checkedNodes, called, built, at, maxStores>>
manageVars == <<backends, sm, reply>>
localVars == <<maps, mutex, task, reader>>
storageVars == <<svc, services, refresher, request>>
pollVars == <<known, clock, loop, poll>>
registerVars == <<disk, handlerNodes, requests, first>>
accessVars == <<registry, creation>>
stepsVars == <<given, doing, log>>
findVars == <<nodesFile, loaded, stack, outcome>>
refreshVars == <<written, started, kept, ticking, pollers, seen>>
serviceVars == <<codecVars, constructVars, manageVars, localVars, storageVars, pollVars, registerVars, accessVars, stepsVars, findVars, refreshVars>>
checkVars == <<pairVars, countVars, nodesVars, secretVars, serviceVars>>

Domains == {"access", "s1", "s2", "s3"}
Storage == {"s1", "s2", "s3"}
Keys == {"x", "y"}
Far == 20
NoURL == [host |-> NoNode]
NoHop == [nv |-> 0]

(***************************************************************************)
(* node.go and nodes.go: the network collection.                           *)
(***************************************************************************)
isActive(n, t) == n.expires > t /\ n.secrets > 0

\* sort.Slice by a key, key being a function of the elements.  On the short
\* slices of the model sort.Slice is an insertion sort, which keeps the
\* order of the elements whose keys are equal.
\* Variant: the slice is left in the order it has.
sortSlice_None(s, key) == s

RECURSIVE sortSlice(_, _)
sortSlice(s, key) ==
  IF s = <<>> THEN <<>>
  ELSE LET r == sortSlice(SubSeq(s, 1, Len(s) - 1), key)
           x == s[Len(s)]
           k == Cardinality({i \in 1..Len(r) : key[r[i]] <= key[x]})
       IN SubSeq(r, 1, k) \o <<x>> \o SubSeq(r, k + 1, Len(r))

\* all, active and hash are sequences of the domains of the nodes; the
\* fields of a node are read from the store.
\* Variant: every node of all is taken as active.
getActiveOrdered_All(all, t) ==
  sortSlice(all, [d \in DOMAIN store |-> store[d].created])

getActiveOrdered(all, t) ==
  LET active(d) == isActive(store[d], t)
  IN sortSlice(SelectSeq(all, active),
               [d \in DOMAIN store |-> store[d].created])

getHashOrdered(active) ==
  LET storage(d) == store[d].role = roleStorage
  IN sortSlice(SelectSeq(active, storage),
               [d \in DOMAIN store |-> store[d].hash])

order(all, t) ==
  LET a == getActiveOrdered(all, t)
  IN [all |-> all, active |-> a, hash |-> getHashOrdered(a)]

\* indexes is the shuffled index list (1-based here); the search reads
\* active[indexes[i]] for each value i of the list.  condition is the
\* function of the caller, as a function of the node.
getRandomNode(ns, indexes, condition) ==
  LET n == Len(ns.active)
      found == {k \in 1..n : condition[ns.active[indexes[indexes[k]]]]}
  IN IF found = {} THEN NoNode
     ELSE ns.active[indexes[indexes[Min(found)]]]

RECURSIVE searchHash(_, _, _, _, _)
searchHash(ns, h, l, u, m) ==
  IF l > u THEN m
  ELSE LET mid == (l + u) \div 2
       IN IF store[ns.hash[mid + 1]].hash < h
          THEN searchHash(ns, h, mid + 1, u, mid)
          ELSE IF store[ns.hash[mid + 1]].hash > h
          THEN searchHash(ns, h, l, mid - 1, mid)
          ELSE mid

\* Variant: the middle of the ring, without the search.
getNodeIndexByHash_Middle(ns, h) == (Len(ns.hash) - 1) \div 2

\* 0-based index as in the code.
getNodeIndexByHash(ns, h) == searchHash(ns, h, 0, Len(ns.hash) - 1, 0)

\* regexClientIP.FindString: the leftmost match of [\d\.]+|\[[^\]]+\] in the
\* characters of s, the empty string when there is none.
Digits == <<"0", "1", "2", "3", "4", "5", "6", "7", "8", "9">>

isDigitOrDot(c) == c = "." \/ c \in Range(Digits)

\* The index of the bracket that closes the one at i, 0 when the characters
\* from i do not match \[[^\]]+\].
closingBracket(s, i) ==
  LET closes == {j \in (i + 1)..Len(s) : s[j] = "]"}
  IN IF s[i] # "[" \/ closes = {} \/ Min(closes) = i + 1 THEN 0
     ELSE Min(closes)

regexClientIP(s) ==
  LET starts == {i \in 1..Len(s) :
                   isDigitOrDot(s[i]) \/ closingBracket(s, i) # 0}
  IN IF starts = {} THEN <<>>
     ELSE LET i == Min(starts)
              ends == {j \in i..Len(s) :
                         \A k \in i..j : isDigitOrDot(s[k])}
          IN IF isDigitOrDot(s[i]) THEN SubSeq(s, i, Max(ends))
             ELSE SubSeq(s, i, closingBracket(s, i))

getRemoteAddr(xff, ra) ==
  IF xff # <<>>
  THEN IF regexClientIP(xff) # <<>> THEN regexClientIP(xff) ELSE xff
  ELSE IF ra # <<>>
  THEN IF regexClientIP(ra) # <<>> THEN regexClientIP(ra) ELSE ra
  ELSE <<>>

\* getHash is the FNV-1a hash of the string and the first number of the
\* generator it seeds: here a fixed function of the characters onto the
\* hash values of the model.
RECURSIVE sumCodes(_)
sumCodes(s) ==
  IF s = <<>> THEN 0
  ELSE (IF s[1] \in Range(Digits)
        THEN (CHOOSE i \in DOMAIN Digits : Digits[i] = s[1]) - 1
        ELSE 1) + sumCodes(Tail(s))

getHash(s) == sumCodes(s) % (MaxHash + 1)

getRemoteAddrHash(xff, ra) ==
  LET d == getRemoteAddr(xff, ra)
  IN IF Len(d) > 0 THEN getHash(d) ELSE 0

\* Variant: no home node without a client address.
getHomeNode_NeedsAddress(ns, xff, ra) ==
  LET i == getNodeIndexByHash(ns, getRemoteAddrHash(xff, ra))
  IN IF getRemoteAddr(xff, ra) = <<>> \/ i < 0 \/ i >= Len(ns.hash)
     THEN NoNode ELSE ns.hash[i + 1]

getHomeNode(ns, xff, ra) ==
  LET i == getNodeIndexByHash(ns, getRemoteAddrHash(xff, ra))
  IN IF i < 0 \/ i >= Len(ns.hash) THEN NoNode ELSE ns.hash[i + 1]

getNode(d) == IF d \in DOMAIN store THEN d ELSE NoNode

(***************************************************************************)
(* operation: the per-request record o holds the persisted fields read     *)
(* from the URL and the fields calculated for the request.                 *)
(***************************************************************************)
HomeNode(o) ==
  IF o.homeNode # "" /\ getNode(o.homeNode) # NoNode
  THEN getNode(o.homeNode)
  ELSE o.network.active[1]

PrevNode(o) == IF o.prevNode # "" THEN getNode(o.prevNode) ELSE NoNode

\* Variant: the time stamp never runs out.
IsTimeStampValid_Always(o, t) == t >= o.timeStamp

IsTimeStampValid(o, t) == t < o.timeStamp + StorageOperationTimeout

done(o) ==
  (o.thisNode = o.nextNode /\ o.nodesVisited >= 2) \/
  o.nodeCount = o.nodesVisited

getCookie(o, p) ==
  LET found == {i \in 1..Len(o.cookiePairs) : o.cookiePairs[i].key = p.key}
  IN IF found = {} THEN Nil ELSE o.cookiePairs[Min(found)]

\* The loop over o.resolved: e counts the empty pairs without a cookie, t is
\* the earliest cookie write time seen, "missing" is the early return.
RECURSIVE cookiesValidLoop(_, _, _, _)
cookiesValidLoop(o, i, e, t) ==
  IF i > Len(o.resolved) THEN [missing |-> FALSE, e |-> e, t |-> t]
  ELSE LET p == o.resolved[i]
           c == getCookie(o, p)
       IN IF c # Nil
          THEN cookiesValidLoop(o, i + 1, e,
                 IF c.cookieWriteTime # ZeroTime /\ c.cookieWriteTime < t
                 THEN c.cookieWriteTime ELSE t)
          ELSE IF isEmpty(p)
          THEN cookiesValidLoop(o, i + 1, e + 1, t)
          ELSE [missing |-> TRUE, e |-> e, t |-> t]

\* Variant: a pair with a value and no cookie does not end the loop.
getCookiesValid_IgnoreMissing(o, t) ==
  LET r == cookiesValidLoop(o, 1, 0, t)
  IN t - r.t < HomeNodeTimeout /\ r.e < Len(o.resolved)

getCookiesValid(o, t) ==
  LET r == cookiesValidLoop(o, 1, 0, t)
  IN ~r.missing /\ t - r.t < HomeNodeTimeout /\ r.e < Len(o.resolved)

getAnyCookiesPresent(o) == o.requestCookies

\* The cookie harvest of newOperationFromRequest: pair i of the operation,
\* the cookies the browser sent (key -> cookie pair or Nil).
RECURSIVE harvest(_, _, _, _, _)
harvest(pairs, cookies, t, cookiePairs, resolved) ==
  IF Len(pairs) = 0
  THEN [cookiePairs |-> cookiePairs, resolved |-> resolved]
  ELSE LET p == pairs[1]
           cp == cookies[p.key]
       IN IF cp # Nil
          THEN harvest(Tail(pairs), cookies, t, Append(cookiePairs, cp),
                       Append(resolved, resolveConflict(p, cp, t)))
          ELSE harvest(Tail(pairs), cookies, t, cookiePairs,
                       Append(resolved, p))

\* Variant: the count of nodes visited is not increased.
newOperationFromRequest_NoIncrement(u, cookies, anyCookies, t) ==
  LET h == harvest(u.op.pairs, cookies, t, <<>>, <<>>)
  IN [timeStamp |-> u.op.timeStamp,
      accessNode |-> u.op.accessNode,
      nodesVisited |-> u.op.nodesVisited,
      nodeCount |-> u.op.nodeCount,
      pairs |-> u.op.pairs,
      prevNode |-> u.op.prevNode,
      homeNode |-> u.op.homeNode,
      flags |-> u.op.flags,
      thisNode |-> getNode(u.host),
      nextNode |-> NoNode,
      network |-> network,
      requestCookies |-> anyCookies,
      cookiePairs |-> h.cookiePairs,
      resolved |-> h.resolved]

\* u is the URL requested (host and operation), cookies the pair cookies of
\* the request and anyCookies whether the request carried a cookie at all.
newOperationFromRequest(u, cookies, anyCookies, t) ==
  LET h == harvest(u.op.pairs, cookies, t, <<>>, <<>>)
  IN IF getNode(u.host) = NoNode
        \/ \E i \in 1..Len(h.resolved) : "err" \in DOMAIN h.resolved[i]
     THEN [err |-> "malformed"]
     ELSE [timeStamp |-> u.op.timeStamp,
           accessNode |-> u.op.accessNode,
           nodesVisited |-> (u.op.nodesVisited + 1) % 256,
           nodeCount |-> u.op.nodeCount,
           pairs |-> u.op.pairs,
           prevNode |-> u.op.prevNode,
           homeNode |-> u.op.homeNode,
           flags |-> u.op.flags,
           thisNode |-> getNode(u.host),
           nextNode |-> NoNode,
           network |-> network,
           requestCookies |-> anyCookies,
           cookiePairs |-> h.cookiePairs,
           resolved |-> h.resolved]

\* writeToBuffer / setFromBuffer carry key, conflict, created, expires and
\* value; the cookie write time is not part of the pair on the wire.
wirePair(p) ==
  [p EXCEPT !.expires = readDate(writeDate(<<>>, @)).value,
            !.cookieWriteTime = ZeroTime]

\* Variant: the pairs of the operation are written, not the resolved pairs.
asByteArray_Pairs(o) ==
  [timeStamp |-> o.timeStamp,
   accessNode |-> o.accessNode,
   nodesVisited |-> o.nodesVisited,
   nodeCount |-> o.nodeCount,
   prevNode |-> o.prevNode,
   homeNode |-> o.homeNode,
   flags |-> o.flags,
   pairs |-> o.pairs]

\* asByteArray followed by setFromByteArray at the receiving node: the
\* persisted fields, with the resolved pairs as the pairs.
asByteArray(o) ==
  [timeStamp |-> o.timeStamp,
   accessNode |-> o.accessNode,
   nodesVisited |-> o.nodesVisited,
   nodeCount |-> o.nodeCount,
   prevNode |-> o.prevNode,
   homeNode |-> o.homeNode,
   flags |-> o.flags,
   pairs |-> [i \in 1..Len(o.resolved) |-> wirePair(o.resolved[i])]]

getNextURL(o) == [host |-> o.nextNode, op |-> asByteArray(o)]

\* Results(): the pairs returned to the caller, or an error.
Results(o, t) ==
  IF ~IsTimeStampValid(o, t) THEN [err |-> "Operation timestamp invalid"]
  ELSE IF o.accessNode = "" THEN [err |-> "No access node provided"]
  ELSE [pairs |-> [i \in 1..Len(o.resolved) |-> wirePair(o.resolved[i])]]

(***************************************************************************)
(* handlerStore.go: one storage hop.                                       *)
(***************************************************************************)
\* Variant: a node is a candidate before it starts.
nextNodeCondition_NoStarts(o, i, t) ==
  /\ store[i].role = roleStorage
  /\ i # o.thisNode
  /\ i # HomeNode(o)

\* The condition handed to getRandomNode for the next node.
nextNodeCondition(o, i, t) ==
  /\ store[i].role = roleStorage
  /\ i # o.thisNode
  /\ i # HomeNode(o)
  /\ store[i].starts < t

\* The passive alive update: the operation leaves with prevNode set to this
\* node only when it arrived with a previous node.
setPrevNode(o) ==
  IF PrevNode(o) # NoNode THEN [o EXCEPT !.prevNode = o.thisNode] ELSE o

\* Variant: the home node is forced one hop too late.
selectNextNode_LateHome(o, indexes, t) ==
  IF o.nodesVisited < o.nodeCount /\ IsTimeStampValid(o, t)
  THEN LET n1 == IF o.nodesVisited = o.nodeCount
                 THEN HomeNode(o) ELSE NoNode
           n2 == IF n1 = NoNode
                 THEN getRandomNode(o.network, indexes,
                                    [i \in DOMAIN store |->
                                       nextNodeCondition(o, i, t)])
                 ELSE n1
       IN IF n2 = NoNode THEN HomeNode(o) ELSE n2
  ELSE NoNode

\* Next node selection of HandlerStore.  The ten attempts of the loop all
\* search every active node, so the first attempt decides the outcome.
selectNextNode(o, indexes, t) ==
  IF o.nodesVisited < o.nodeCount /\ IsTimeStampValid(o, t)
  THEN LET n1 == IF o.nodesVisited = (o.nodeCount - 1) % 256
                 THEN HomeNode(o) ELSE NoNode
           n2 == IF n1 = NoNode
                 THEN getRandomNode(o.network, indexes,
                                    [i \in DOMAIN store |->
                                       nextNodeCondition(o, i, t)])
                 ELSE n1
       IN IF n2 = NoNode THEN HomeNode(o) ELSE n2
  ELSE NoNode

\* Variant: the home node alone is never enough.
storeBranch_NoHomeAlone(o, t) ==
  IF o.nextNode # NoNode
  THEN IF done(o) THEN "done" ELSE "continue"
  ELSE "done"

\* Which of storeComplete, storeDone and storeContinue HandlerStore calls.
storeBranch(o, t) ==
  IF o.nextNode # NoNode
  THEN IF o.nodesVisited = 1 /\ o.flags.useHomeNode /\ getCookiesValid(o, t)
       THEN "complete"
       ELSE IF done(o) THEN "done" ELSE "continue"
  ELSE "done"

storeDone(o) ==
  IF o.nodeCount > 1 /\ done(o) /\ ~o.flags.javaScript
     /\ ~getAnyCookiesPresent(o)
  THEN "warning" ELSE "complete"

\* Variant: the count of nodes visited is not reset for the retry.
storeWarning_NoReset(o, t) ==
  [o EXCEPT !.nextNode = HomeNode(o), !.timeStamp = t]

storeWarning(o, t) ==
  [o EXCEPT !.nextNode = HomeNode(o), !.nodesVisited = 0, !.timeStamp = t]

\* Variant: without the postMessage flag nothing is returned.
storeComplete_NoReturn(o) ==
  IF o.flags.postMessageOnComplete THEN "postMessage" ELSE "blank"

storeComplete(o) ==
  IF o.flags.postMessageOnComplete THEN "postMessage" ELSE "return"

\* The response class of the hop.
response(o, t) ==
  LET b == storeBranch(o, t)
  IN IF b = "continue" THEN "continue"
     ELSE IF b = "done" /\ storeDone(o) = "warning" THEN "warning"
     ELSE storeComplete(o)

\* setValueInCookie: the cookie the response sets for the pair p, named by
\* the key of the pair and holding the pair and the time of writing.
setValueInCookie(p, t) == [wirePair(p) EXCEPT !.cookieWriteTime = t]

\* Variant: a cookie is written for every resolved pair.
setCookies_Always(o, t) ==
  [i \in 1..Len(o.resolved) |-> setValueInCookie(o.resolved[i], t)]

\* setCookies: the cookie the response sets for each resolved pair, in the
\* order of the pairs, Nil where none is set.
setCookies(o, t) ==
  [i \in 1..Len(o.resolved) |->
     IF isEmpty(o.resolved[i]) THEN Nil
     ELSE setValueInCookie(o.resolved[i], t)]

\* The cookies of the node in the browser after a response that sets the
\* cookies of set from index i on, in their order: a cookie replaces the one
\* of the same name, and one whose Expires has passed is dropped.
RECURSIVE storeCookies(_, _, _, _)
storeCookies(row, set, i, t) ==
  IF i > Len(set) THEN row
  ELSE IF set[i] = Nil THEN storeCookies(row, set, i + 1, t)
  ELSE storeCookies([row EXCEPT ![set[i].key] =
                       IF set[i].expires > t THEN set[i] ELSE Nil],
                    set, i + 1, t)

\* setBrowserWarningCookie is called when no pair cookie was written and the
\* request had no cookies.
setsBrowserWarningCookie(o) ==
  (\A i \in 1..Len(o.resolved) : isEmpty(o.resolved[i]))
  /\ ~getAnyCookiesPresent(o)

requestCookies(d, t) ==
  (\E k \in Keys : jar[d][k] # Nil) \/ t < probe[d]

\* The nodes the selection can return for the operation o0 of the request,
\* one for each order in which rand shuffles the indexes of the active nodes.
nextNodes(o0, t) ==
  IF "err" \in DOMAIN o0 THEN {NoNode}
  ELSE {selectNextNode(o, indexes, t) :
          o \in {setPrevNode(o0)},
          indexes \in Permutations(1..Len(network.active))}

\* The keys of the operation for which the harvest took a cookie pair that
\* was created after the pair the operation carried.
newerCookies(o) ==
  {o.pairs[i].key : i \in {j \in 1..Len(o.pairs) :
     /\ getCookie(o, o.pairs[j]) # Nil
     /\ getCookie(o, o.pairs[j]).created > o.pairs[j].created
     /\ o.resolved[j] = getCookie(o, o.pairs[j])}}

\* What HandlerStore does with the operation o0 of the request of URL u when
\* the selection returns next: the node fields, the cookies of the browser,
\* the URL of the response and the record of the hop.
handle(u, o0, next, t) ==
  LET this == u.host
  IN IF "err" \in DOMAIN o0
     THEN [alive |-> alive, accessed |-> accessed, jar |-> jar,
           probe |-> probe, url |-> NoURL, phase |-> "failed",
           hop |-> [nv |-> 0, response |-> "malformed"]]
     ELSE LET prev == PrevNode(o0)
              o1 == setPrevNode(o0)
              o2 == [o1 EXCEPT !.nextNode = next]
              rc == response(o2, t)
              writes == cookiesOn /\ rc \in {"continue", "return"}
          IN [alive |-> IF prev # NoNode
                        THEN [alive EXCEPT ![prev] = TRUE] ELSE alive,
              accessed |-> IF prev # NoNode
                           THEN [accessed EXCEPT ![prev] = t] ELSE accessed,
              jar |-> IF writes
                      THEN [jar EXCEPT ![this] =
                              storeCookies(@, setCookies(o2, t), 1, t)]
                      ELSE jar,
              probe |-> IF writes /\ setsBrowserWarningCookie(o2)
                        THEN [probe EXCEPT ![this] = t + ProbeLifetime]
                        ELSE probe,
              url |-> IF rc = "continue" THEN getNextURL(o2)
                      ELSE IF rc = "warning"
                      THEN getNextURL(storeWarning(o2, t))
                      ELSE NoURL,
              phase |-> IF rc = "continue" THEN "inflight"
                        ELSE IF rc = "warning" THEN "warned"
                        ELSE "complete",
              hop |-> [nv |-> o2.nodesVisited,
                       nodeCount |-> o2.nodeCount,
                       set |-> IF writes THEN setCookies(o2, t) ELSE <<>>,
                       node |-> this,
                       time |-> t,
                       timeStamp |-> u.op.timeStamp,
                       prevServed |-> IF "node" \in DOMAIN hop
                                      THEN hop.node ELSE NoNode,
                       arrivedPrev |-> u.op.prevNode,
                       arrived |-> u.op.pairs,
                       cookies |-> jar[this],
                       wonBefore |-> IF "won" \in DOMAIN hop
                                     THEN hop.won ELSE {},
                       won |-> (IF "won" \in DOMAIN hop THEN hop.won ELSE {})
                                 \cup newerCookies(o2),
                       next |-> o2.nextNode,
                       branch |-> storeBranch(o2, t),
                       response |-> rc,
                       flags |-> o2.flags,
                       anyCookies |-> requestCookies(this, t),
                       cookiesValid |-> getCookiesValid(o2, t),
                       resolved |-> o2.resolved,
                       results |-> IF rc \in {"return", "postMessage"}
                                   THEN Results(o2, t) ELSE Nil]]

HandlerStore ==
  /\ phase = "inflight"
  /\ gets < MaxGets
  /\ \E o0 \in {newOperationFromRequest(url, jar[url.host],
                                         requestCookies(url.host, now), now)} :
     \E out \in {handle(url, o0, next, now) : next \in nextNodes(o0, now)} :
       /\ alive' = out.alive
       /\ accessed' = out.accessed
       /\ jar' = out.jar
       /\ probe' = out.probe
       /\ url' = out.url
       /\ phase' = out.phase
       /\ hop' = out.hop
  /\ gets' = gets + 1
  /\ run' = run + 1
  /\ UNCHANGED <<now, store, network, cookiesOn, home, retries, form>>
  /\ UNCHANGED checkVars

(***************************************************************************)
(* handlerCreate.go: the access node creates the operation.                *)
(***************************************************************************)
\* q holds the values of nodeCount in the form, none when the form has no
\* such field.  nodeCount is a byte, and so is the converted length of the
\* ring it is compared with.
setCount(q, ns) ==
  IF q # <<>> /\ q[1] <= 0
  THEN [err |-> "SWIFT node count must be greater than 0"]
  ELSE IF q # <<>> /\ q[1] >= 255
  THEN [err |-> "SWIFT node count must be less than 255"]
  ELSE LET n == IF q # <<>> THEN q[1] ELSE ConfigNodeCount
           size == Len(ns.hash) % 256
       IN [nodeCount |-> IF n > size THEN size ELSE n]

createPairWithNoValue(k, policy) ==
  [key |-> k, created |-> ZeroTime, expires |-> ZeroTime, value |-> <<>>,
   conflict |-> policy, cookieWriteTime |-> ZeroTime]

createPairWithValue(k, policy, v, e, t) ==
  [key |-> k, created |-> t, expires |-> e, value |-> v,
   conflict |-> policy, cookieWriteTime |-> ZeroTime]

Policies == {conflictOldest, conflictNewest, conflictAdd}

getConflictPolicy(ch) ==
  IF ch = "+" THEN conflictAdd
  ELSE IF ch = "<" THEN conflictOldest
  ELSE IF ch = ">" THEN conflictNewest
  ELSE conflictInvalid

\* A key of the form is a sequence of characters: a name of one letter, the
\* character of the policy and, for a write, the token "D" of an expiry date
\* in the future.  FindStringIndex gives the first policy character.
operationCharacterIndex(k) ==
  LET hits == {i \in 1..Len(k) : k[i] \in {"<", ">", "+"}}
  IN IF hits = {} THEN 0 ELSE Min(hits)

\* time.Parse of the date that follows the policy character.
parseExpires(d) == IF d = <<"D">> THEN Far ELSE ZeroTime

createPair(k, v, t) ==
  LET i == operationCharacterIndex(k)
  IN IF i = 0 THEN [err |-> "Key must include a policy character"]
     ELSE IF Len(k) # i
     THEN createPairWithValue(k[1], getConflictPolicy(k[i]), v,
                              parseExpires(SubSeq(k, i + 1, Len(k))), t)
     ELSE createPairWithNoValue(k[1], getConflictPolicy(k[i]))

\* The forms considered, each as the sequence of its keys and values in the
\* order in which Create ranges over them: a form with one key for "x", of
\* every policy, as a read or as a write of "b"; two forms with the keys "x"
\* and "y"; and a form with two keys that name "x".
FormKey(k, v) == [k |-> k, v |-> v]

Forms ==
  {<<FormKey(<<"x", c>>, <<>>)>> : c \in {"<", ">", "+"}} \cup
  {<<FormKey(<<"x", c, "D">>, <<"b">>)>> : c \in {"<", ">", "+"}} \cup
  {<<FormKey(<<"x", ">">>, <<>>), FormKey(<<"y", ">">>, <<>>)>>,
   <<FormKey(<<"y", ">">>, <<>>), FormKey(<<"x", "+", "D">>, <<"b">>)>>,
   <<FormKey(<<"x", ">">>, <<>>), FormKey(<<"x", "+", "D">>, <<"b">>)>>}

\* The pairs Create appends for the forms, at time t.
FormPairLists(t) ==
  {[i \in 1..Len(f) |-> createPair(f[i].k, f[i].v, t)] : f \in Forms}

Flags(post, homeOnly, js) ==
  [displayUserInterface |-> TRUE, postMessageOnComplete |-> post,
   useHomeNode |-> homeOnly, javaScript |-> js]

FormFlags ==
  {Flags(FALSE, FALSE, FALSE), Flags(TRUE, FALSE, FALSE),
   Flags(FALSE, TRUE, FALSE), Flags(FALSE, FALSE, TRUE)}

\* The remote addresses of the browsers: an IP address and a port.
RemoteAddrs == {<<Digits[h + 1], ":", "8">> : h \in 0..MaxHash}

Create ==
  /\ phase = "idle"
  /\ \E q \in {<<>>, <<1>>, <<2>>}, f \in FormFlags, ps \in FormPairLists(now),
        ra \in RemoteAddrs :
       LET n == getHomeNode(network, <<>>, ra)
           o == [timeStamp |-> now,
                 accessNode |-> "access",
                 nodesVisited |-> 0,
                 nodeCount |-> setCount(q, network).nodeCount,
                 prevNode |-> "",
                 homeNode |-> n,
                 flags |-> f,
                 pairs |-> <<>>,
                 resolved |-> ps,
                 nextNode |-> n]
       IN IF n = NoNode
          THEN /\ phase' = "failed"
               /\ url' = NoURL
               /\ home' = NoNode
               /\ form' = <<>>
          ELSE /\ phase' = "inflight"
               /\ url' = getNextURL(o)
               /\ home' = n
               /\ form' = ps
  /\ hop' = NoHop
  /\ gets' = 0
  /\ run' = 0
  /\ retries' = 0
  /\ UNCHANGED <<now, store, network, alive, accessed, jar, probe, cookiesOn>>
  /\ UNCHANGED checkVars

(***************************************************************************)
(* The browser and the clock.                                              *)
(***************************************************************************)
\* The user follows the retry link of the warning page.
Retry ==
  /\ phase = "warned"
  /\ retries < MaxRetries
  /\ phase' = "inflight"
  /\ retries' = retries + 1
  /\ run' = 0
  /\ UNCHANGED <<now, store, network, alive, accessed, jar, probe, cookiesOn,
                 url, hop, gets, home, form>>
  /\ UNCHANGED checkVars

\* The user changes the browser settings as the warning page asks.
EnableCookies ==
  /\ phase = "warned"
  /\ ~cookiesOn
  /\ cookiesOn' = TRUE
  /\ UNCHANGED <<now, store, network, alive, accessed, jar, probe, phase,
                 url, hop, gets, run, home, retries, form>>
  /\ UNCHANGED checkVars

Tick ==
  /\ now < MaxTime
  /\ now' = now + 1
  /\ UNCHANGED <<store, network, alive, accessed, jar, probe, cookiesOn,
                 phase, url, hop, gets, run, home, retries, form>>
  /\ UNCHANGED checkVars

(***************************************************************************)
(* The networks the operation runs in: one access node and three storage   *)
(* nodes, each of which may start late or have expired before the store    *)
(* was loaded.  newNode creates a node not alive and never accessed.       *)
(***************************************************************************)
LateStart == 2
NodeWindows1 == [starts |-> 0, expires |-> Far]
NodeWindows2 == [starts |-> LateStart, expires |-> Far]
NodeWindows3 == [starts |-> 0, expires |-> 0]

newNode(created, w, role, hash) ==
  [role |-> role, hash |-> hash, created |-> created, starts |-> w.starts,
   expires |-> w.expires, secrets |-> 1]

Windows(w2, w3) == [s2 |-> w2, s3 |-> w3]

StoreWindows ==
  {Windows(NodeWindows1, NodeWindows1), Windows(NodeWindows2, NodeWindows2),
   Windows(NodeWindows3, NodeWindows1), Windows(NodeWindows1, NodeWindows2)}

\* The order in which the store read the nodes.
AllNodes == <<"access", "s1", "s2", "s3">>

Stores ==
  {[d \in Domains |->
      IF d = "access" THEN newNode(0, NodeWindows1, roleAccess, 0)
      ELSE IF d = "s1" THEN newNode(1, NodeWindows1, roleStorage, 1)
      ELSE IF d = "s2" THEN newNode(2, w.s2, roleStorage, 3)
      ELSE newNode(3, w.s3, roleStorage, 5)] : w \in StoreWindows}

\* The browser arrives either refusing cookies, or with the pair cookies
\* that earlier storage operations wrote at time 1 on some of the nodes.
emptyRow == [k \in Keys |-> Nil]

EarlierRows ==
  {[emptyRow EXCEPT !["x"] =
      setValueInCookie(createPairWithValue("x", c, <<"a">>, Far, 1), 1)] :
     c \in {conflictNewest, conflictAdd}}

\* The cookie of another storage operation that created its value at the
\* same time.
OtherRow ==
  [emptyRow EXCEPT !["x"] =
     setValueInCookie(createPairWithValue("x", conflictNewest, <<"c">>, Far, 1),
                      1)]

Browsers ==
  {[on |-> FALSE, jar |-> [d \in Domains |-> emptyRow]],
   [on |-> TRUE, jar |-> [d \in Domains |-> emptyRow]]} \cup
  {[on |-> TRUE,
    jar |-> [d \in Domains |-> IF d \in D THEN r ELSE emptyRow]] :
     r \in EarlierRows, D \in {{"s1"}, {"s2"}, Storage}} \cup
  {[on |-> TRUE,
    jar |-> [d \in Domains |-> IF d = "s1" THEN r
                               ELSE IF d \in Storage THEN OtherRow
                               ELSE emptyRow]] : r \in EarlierRows}

PairIdle ==
  /\ po = Nil
  /\ pc = Nil
  /\ pr = Nil

CountIdle ==
  /\ countForm = <<>>
  /\ countRing = [all |-> <<>>, active |-> <<>>, hash |-> <<>>]
  /\ countOut = Nil

NodesIdle ==
  /\ other = [all |-> <<>>, active |-> <<>>, hash |-> <<>>]
  /\ lookup = Nil
  /\ last = Nil

SecretIdle ==
  /\ nodeSecrets = <<>>
  /\ sorted = FALSE
  /\ used = Nil

CodecIdle ==
  /\ sent = Nil
  /\ buffer = Nil
  /\ received = Nil

ConstructIdle ==
  /\ sts = <<>>
  /\ idx = 0
  /\ pending = {}
  /\ checkedNodes = {}
  /\ called = <<>>
  /\ built = Nil
  /\ at = "idle"
  /\ maxStores = 0

ManageIdle ==
  /\ backends = <<>>
  /\ sm = Nil
  /\ reply = Nil

LocalIdle ==
  /\ maps = Nil
  /\ mutex = "idle"
  /\ task = Nil
  /\ reader = Nil

StorageIdle ==
  /\ svc = Nil
  /\ services = Nil
  /\ refresher = Nil
  /\ request = Nil

PollIdle ==
  /\ known = Nil
  /\ clock = 0
  /\ loop = Nil
  /\ poll = Nil

RegisterIdle ==
  /\ disk = Nil
  /\ handlerNodes = {}
  /\ requests = 0
  /\ first = Nil

AccessIdle ==
  /\ registry = Nil
  /\ creation = Nil

StepsIdle ==
  /\ given = Nil
  /\ doing = Nil
  /\ log = <<>>

FindIdle ==
  /\ nodesFile = Nil
  /\ loaded = Nil
  /\ stack = Nil
  /\ outcome = Nil

RefreshIdle ==
  /\ written = Nil
  /\ started = Nil
  /\ kept = Nil
  /\ ticking = Nil
  /\ pollers = Nil
  /\ seen = Nil

ServiceIdle ==
  /\ RefreshIdle
  /\ FindIdle
  /\ StepsIdle
  /\ AccessIdle
  /\ RegisterIdle
  /\ PollIdle
  /\ StorageIdle
  /\ LocalIdle
  /\ ManageIdle
  /\ ConstructIdle
  /\ CodecIdle

Init ==
  /\ now = 1
  /\ store \in Stores
  /\ network = order(AllNodes, now)
  /\ alive = [d \in Domains |-> FALSE]
  /\ accessed = [d \in Domains |-> ZeroTime]
  /\ \E b \in Browsers :
       /\ jar = b.jar
       /\ cookiesOn = b.on
  /\ probe = [d \in Domains |-> ZeroTime]
  /\ phase = "idle"
  /\ url = NoURL
  /\ hop = NoHop
  /\ gets = 0
  /\ run = 0
  /\ home = NoNode
  /\ retries = 0
  /\ form = <<>>
  /\ PairIdle
  /\ CountIdle
  /\ NodesIdle
  /\ SecretIdle
  /\ ServiceIdle

Next ==
  \/ Create
  \/ HandlerStore
  \/ Retry
  \/ EnableCookies
  \/ Tick

Spec == Init /\ [][Next]_vars

\* The browser follows every redirect and the node it reaches serves the
\* request.  HandlerStore is the only action that counts a request, and it can
\* act whenever a request is in flight, so a step that counts a request is a
\* step of HandlerStore and fairness is stated on the count.
Served == phase = "inflight" /\ gets < MaxGets /\ gets' = gets + 1

FairSpec == Spec /\ WF_gets(Served)

(***************************************************************************)
(* Pair checks: resolveConflict applied to an operation pair and the       *)
(* cookie pair of the same key.  An operation pair is read from the URL,   *)
(* so it has no cookie write time; a cookie pair is not empty and was      *)
(* written at some time.  A value is a list of words joined by the list    *)
(* separator.                                                              *)
(***************************************************************************)
Words == {<<"a">>, <<"b">>}

RECURSIVE WordLists(_)
WordLists(n) ==
  IF n = 0 THEN {<<>>}
  ELSE WordLists(n - 1) \cup
       {Append(l, w) : l \in {x \in WordLists(n - 1) : Len(x) = n - 1},
                       w \in Words}

ListValues == {Join(l, pairListSeparator) : l \in WordLists(MaxWords)}

\* The value-less pairs of Create as they arrive at a node.
ProbePairs == {wirePair(createPairWithNoValue("x", c)) : c \in Policies}

OperationPairs ==
  {[key |-> "x", created |-> cr, expires |-> Far, value |-> v,
    conflict |-> c, cookieWriteTime |-> ZeroTime] :
     cr \in 0..MaxCreated, v \in ListValues, c \in Policies}
  \cup ProbePairs

CookiePairs ==
  {[key |-> "x", created |-> cr, expires |-> Far + 1, value |-> v,
    conflict |-> conflictNewest, cookieWriteTime |-> w] :
     cr \in 1..MaxCreated, v \in ListValues \ {<<>>}, w \in 1..2}

\* No browser and no storage operation.
SessionIdle ==
  /\ alive = [d \in {} |-> FALSE]
  /\ accessed = [d \in {} |-> ZeroTime]
  /\ jar = [d \in {} |-> 0]
  /\ probe = [d \in {} |-> ZeroTime]
  /\ cookiesOn = TRUE
  /\ phase = "idle"
  /\ url = NoURL
  /\ hop = NoHop
  /\ gets = 0
  /\ run = 0
  /\ home = NoNode
  /\ retries = 0
  /\ form = <<>>

BounceIdle ==
  /\ now = MaxCreated + 1
  /\ store = [d \in {} |-> 0]
  /\ network = [all |-> <<>>, active |-> <<>>, hash |-> <<>>]
  /\ SessionIdle

\* What the actions of each check leave unchanged, and the state they start
\* from.
earlierVars == <<bounceVars, pairVars, countVars, nodesVars, secretVars>>

EarlierIdle ==
  /\ BounceIdle
  /\ PairIdle
  /\ CountIdle
  /\ NodesIdle
  /\ SecretIdle

codecRest == <<earlierVars, constructVars, manageVars, localVars, storageVars, pollVars, registerVars, accessVars, stepsVars, findVars, refreshVars>>

CodecRestIdle ==
  /\ EarlierIdle
  /\ ConstructIdle
  /\ ManageIdle
  /\ LocalIdle
  /\ StorageIdle
  /\ PollIdle
  /\ RegisterIdle
  /\ AccessIdle
  /\ StepsIdle
  /\ FindIdle
  /\ RefreshIdle

constructRest == <<earlierVars, codecVars, manageVars, localVars, storageVars, pollVars, registerVars, accessVars, stepsVars, findVars, refreshVars>>

ConstructRestIdle ==
  /\ EarlierIdle
  /\ CodecIdle
  /\ ManageIdle
  /\ LocalIdle
  /\ StorageIdle
  /\ PollIdle
  /\ RegisterIdle
  /\ AccessIdle
  /\ StepsIdle
  /\ FindIdle
  /\ RefreshIdle

manageRest == <<earlierVars, codecVars, constructVars, localVars, storageVars, pollVars, registerVars, accessVars, stepsVars, findVars, refreshVars>>

ManageRestIdle ==
  /\ EarlierIdle
  /\ CodecIdle
  /\ ConstructIdle
  /\ LocalIdle
  /\ StorageIdle
  /\ PollIdle
  /\ RegisterIdle
  /\ AccessIdle
  /\ StepsIdle
  /\ FindIdle
  /\ RefreshIdle

localRest == <<earlierVars, codecVars, constructVars, manageVars, storageVars, pollVars, registerVars, accessVars, stepsVars, findVars, refreshVars>>

LocalRestIdle ==
  /\ EarlierIdle
  /\ CodecIdle
  /\ ConstructIdle
  /\ ManageIdle
  /\ StorageIdle
  /\ PollIdle
  /\ RegisterIdle
  /\ AccessIdle
  /\ StepsIdle
  /\ FindIdle
  /\ RefreshIdle

storageRest == <<earlierVars, codecVars, constructVars, manageVars, localVars, pollVars, registerVars, accessVars, stepsVars, findVars, refreshVars>>

StorageRestIdle ==
  /\ EarlierIdle
  /\ CodecIdle
  /\ ConstructIdle
  /\ ManageIdle
  /\ LocalIdle
  /\ PollIdle
  /\ RegisterIdle
  /\ AccessIdle
  /\ StepsIdle
  /\ FindIdle
  /\ RefreshIdle

pollRest == <<earlierVars, codecVars, constructVars, manageVars, localVars, storageVars, registerVars, accessVars, stepsVars, findVars, refreshVars>>

PollRestIdle ==
  /\ EarlierIdle
  /\ CodecIdle
  /\ ConstructIdle
  /\ ManageIdle
  /\ LocalIdle
  /\ StorageIdle
  /\ RegisterIdle
  /\ AccessIdle
  /\ StepsIdle
  /\ FindIdle
  /\ RefreshIdle

registerRest == <<earlierVars, codecVars, constructVars, manageVars, localVars, storageVars, pollVars, accessVars, stepsVars, findVars, refreshVars>>

RegisterRestIdle ==
  /\ EarlierIdle
  /\ CodecIdle
  /\ ConstructIdle
  /\ ManageIdle
  /\ LocalIdle
  /\ StorageIdle
  /\ PollIdle
  /\ AccessIdle
  /\ StepsIdle
  /\ FindIdle
  /\ RefreshIdle

accessRest == <<earlierVars, codecVars, constructVars, manageVars, localVars, storageVars, pollVars, registerVars, stepsVars, findVars, refreshVars>>

AccessRestIdle ==
  /\ EarlierIdle
  /\ CodecIdle
  /\ ConstructIdle
  /\ ManageIdle
  /\ LocalIdle
  /\ StorageIdle
  /\ PollIdle
  /\ RegisterIdle
  /\ StepsIdle
  /\ FindIdle
  /\ RefreshIdle

stepsRest == <<earlierVars, codecVars, constructVars, manageVars, localVars, storageVars, pollVars, registerVars, accessVars, findVars, refreshVars>>

StepsRestIdle ==
  /\ EarlierIdle
  /\ CodecIdle
  /\ ConstructIdle
  /\ ManageIdle
  /\ LocalIdle
  /\ StorageIdle
  /\ PollIdle
  /\ RegisterIdle
  /\ AccessIdle
  /\ FindIdle
  /\ RefreshIdle

findRest == <<earlierVars, codecVars, constructVars, manageVars, localVars, storageVars, pollVars, registerVars, accessVars, stepsVars, refreshVars>>

FindRestIdle ==
  /\ EarlierIdle
  /\ CodecIdle
  /\ ConstructIdle
  /\ ManageIdle
  /\ LocalIdle
  /\ StorageIdle
  /\ PollIdle
  /\ RegisterIdle
  /\ AccessIdle
  /\ StepsIdle
  /\ RefreshIdle

refreshRest == <<earlierVars, codecVars, constructVars, manageVars, localVars, storageVars, pollVars, registerVars, accessVars, stepsVars, findVars>>

RefreshRestIdle ==
  /\ EarlierIdle
  /\ CodecIdle
  /\ ConstructIdle
  /\ ManageIdle
  /\ LocalIdle
  /\ StorageIdle
  /\ PollIdle
  /\ RegisterIdle
  /\ AccessIdle
  /\ StepsIdle
  /\ FindIdle

\* End of the unchanged state.

PairInit ==
  /\ BounceIdle
  /\ CountIdle
  /\ NodesIdle
  /\ SecretIdle
  /\ ServiceIdle
  /\ po \in OperationPairs
  /\ pc \in CookiePairs
  /\ pr = Nil

\* The harvest resolves the pair of the operation against the cookie.
Resolve ==
  /\ pr = Nil
  /\ pr' = resolveConflict(po, pc, now)
  /\ UNCHANGED <<po, pc>>
  /\ UNCHANGED bounceVars
  /\ UNCHANGED countVars
  /\ UNCHANGED nodesVars
  /\ UNCHANGED secretVars
  /\ UNCHANGED serviceVars

PairNext == Resolve

PairSpec == PairInit /\ [][PairNext]_vars

(***************************************************************************)
(* The node count of Create, for every value of the form and rings of up   *)
(* to a few nodes and of about the 256 nodes a byte counts.                *)
(***************************************************************************)
RequestedCounts == (-1..3) \cup (253..256)

CountForms == {<<>>} \cup {<<c>> : c \in RequestedCounts}

RingSizes == (0..3) \cup (254..258)

\* A nodes collection whose ring has n storage nodes.
RingOfSize(n) == [all |-> [i \in 1..n |-> ToString(i)],
                  active |-> [i \in 1..n |-> ToString(i)],
                  hash |-> [i \in 1..n |-> ToString(i)]]

CountInit ==
  /\ BounceIdle
  /\ PairIdle
  /\ NodesIdle
  /\ SecretIdle
  /\ ServiceIdle
  /\ countForm \in CountForms
  /\ countRing \in {RingOfSize(n) : n \in RingSizes}
  /\ countOut = Nil

\* Create sets the number of nodes of the operation.
Count ==
  /\ countOut = Nil
  /\ countOut' = setCount(countForm, countRing)
  /\ UNCHANGED <<countForm, countRing>>
  /\ UNCHANGED bounceVars
  /\ UNCHANGED pairVars
  /\ UNCHANGED nodesVars
  /\ UNCHANGED secretVars
  /\ UNCHANGED serviceVars

CountNext == Count

CountSpec == CountInit /\ [][CountNext]_vars

(***************************************************************************)
(* The nodes collections of a network on two web servers, the store        *)
(* operations that change them and the lookups of the home node.           *)
(***************************************************************************)
MaxAll == 3

RingDomains == {"a1", "n1", "n2", "n3", "n4"}

NodeWindows4 == [starts |-> 0, expires |-> 2]

\* The nodes registered for the domains.  "n2" and "n3" were created at the
\* same time and getHash gives them the same hash; "n1" expires at time 2.
RingNode(d) ==
  IF d = "a1" THEN newNode(0, NodeWindows1, roleAccess, 0)
  ELSE IF d = "n1" THEN newNode(1, NodeWindows4, roleStorage, 1)
  ELSE IF d = "n2" THEN newNode(2, NodeWindows1, roleStorage, 2)
  ELSE IF d = "n3" THEN newNode(2, NodeWindows1, roleStorage, 2)
  ELSE newNode(4, NodeWindows1, roleStorage, 3)

\* The orders in which a store can hand over the nodes of the set S.
Orders(S) == {a \in [1..Cardinality(S) -> S] : Range(a) = S}

\* The addresses of the lookups: the X-Forwarded-For header and the remote
\* address of the request.
Lookups ==
  {<<(<<>>), ra>> : ra \in RemoteAddrs \cup {<<>>, <<"h">>}} \cup
  {<<(<<"[", "a", "]">>), (<<"1", ":", "8">>)>>,
   <<(<<"h", ",", "2", ".", "1">>), (<<>>)>>}

\* The stores of the model hold up to MaxAll of the nodes.
Rosters == {T \in SUBSET RingDomains : Cardinality(T) <= MaxAll}

NoNodes == [all |-> <<>>, active |-> <<>>, hash |-> <<>>]

\* base.init: the store builds the collection of the network from its nodes,
\* in the order it reads them, and orders it.
NodesInit ==
  /\ SessionIdle
  /\ PairIdle
  /\ CountIdle
  /\ SecretIdle
  /\ ServiceIdle
  /\ now = 1
  /\ \E S \in Rosters :
       /\ store = [d \in S |-> RingNode(d)]
       /\ \E a \in Orders(S) : network = order(a, now)
  /\ other = NoNodes
  /\ lookup = Nil
  /\ last = [op |-> "construct", at |-> now, otherAt |-> ZeroTime]

\* Volatile.setNode of a node whose domain the store does not hold.
setNode ==
  /\ Len(network.all) < MaxAll
  /\ \E d \in RingDomains \ DOMAIN store :
       /\ store' = [e \in DOMAIN store \cup {d} |->
                      IF e = d THEN RingNode(d) ELSE store[e]]
       /\ network' = [network EXCEPT !.all = Append(@, d)]
  /\ last' = [last EXCEPT !.op = "setNode", !.at = now]
  /\ UNCHANGED <<now, other, lookup>>
  /\ UNCHANGED <<alive, accessed, jar, probe, cookiesOn, phase, url, hop,
                 gets, run, home, retries, form>>
  /\ UNCHANGED <<pairVars, countVars, secretVars, serviceVars>>

\* refresh: the store builds a new collection from the nodes it fetches and
\* orders it.  The refresh runs on a ticker, after the construction or the
\* refresh before it.
refresh ==
  /\ last.op = "setNode" \/ last.at < now
  /\ \E a \in Orders(DOMAIN store) : network' = order(a, now)
  /\ last' = [last EXCEPT !.op = "refresh", !.at = now]
  /\ UNCHANGED <<now, store, other, lookup>>
  /\ UNCHANGED <<alive, accessed, jar, probe, cookiesOn, phase, url, hop,
                 gets, run, home, retries, form>>
  /\ UNCHANGED <<pairVars, countVars, secretVars, serviceVars>>

NodesNext ==
  \/ setNode
  \/ refresh
  \/ Tick

NodesSpec == NodesInit /\ [][NodesNext]_vars

(***************************************************************************)
(* The home node: two web servers hold the collection of the same nodes,   *)
(* each built in the order its store read the nodes and ordered at its own *)
(* time, and a request asks both for the home node of a client.            *)
(***************************************************************************)
RingInit ==
  /\ SessionIdle
  /\ PairIdle
  /\ CountIdle
  /\ SecretIdle
  /\ ServiceIdle
  /\ now \in 1..MaxTime
  /\ \E S \in Rosters :
       /\ store = [d \in S |-> RingNode(d)]
       /\ \E a, b \in Orders(S), t \in 1..now :
            /\ network = order(a, now)
            /\ other = order(b, t)
            /\ last = [op |-> "construct", at |-> now, otherAt |-> t]
  /\ lookup = Nil

Lookup ==
  /\ lookup = Nil
  /\ \E q \in Lookups :
       lookup' = [xff |-> q[1], ra |-> q[2],
                  h |-> getRemoteAddrHash(q[1], q[2]),
                  i |-> getNodeIndexByHash(network,
                                           getRemoteAddrHash(q[1], q[2])),
                  node |-> getHomeNode(network, q[1], q[2]),
                  otherNode |-> getHomeNode(other, q[1], q[2])]
  /\ UNCHANGED <<now, store, network, other, last>>
  /\ UNCHANGED <<alive, accessed, jar, probe, cookiesOn, phase, url, hop,
                 gets, run, home, retries, form>>
  /\ UNCHANGED <<pairVars, countVars, secretVars, serviceVars>>

RingNext == Lookup

RingSpec == RingInit /\ [][RingNext]_vars

(***************************************************************************)
(* The secrets of a node: the store adds the secrets it holds for the      *)
(* node, sorts them, and the node encrypts with the secret getSecret       *)
(* returns.                                                                *)
(***************************************************************************)
MaxSecrets == 3

SecretInit ==
  /\ BounceIdle
  /\ PairIdle
  /\ CountIdle
  /\ NodesIdle
  /\ ServiceIdle
  /\ nodeSecrets = <<>>
  /\ sorted = FALSE
  /\ used = Nil

\* addSecret of a secret with the time stamp t; the key tells the secrets
\* of the node apart.
addSecret ==
  /\ ~sorted
  /\ Len(nodeSecrets) < MaxSecrets
  /\ \E t \in 1..MaxTime :
       nodeSecrets' = Append(nodeSecrets,
                             [timeStamp |-> t, key |-> Len(nodeSecrets) + 1])
  /\ UNCHANGED <<sorted, used>>
  /\ UNCHANGED bounceVars
  /\ UNCHANGED <<pairVars, countVars, nodesVars, serviceVars>>

\* sort.Slice with the time stamp of i before that of j as less.
sortSecrets ==
  /\ ~sorted
  /\ nodeSecrets' = sortSlice(nodeSecrets,
                              [s \in Range(nodeSecrets) |-> s.timeStamp])
  /\ sorted' = TRUE
  /\ UNCHANGED used
  /\ UNCHANGED bounceVars
  /\ UNCHANGED <<pairVars, countVars, nodesVars, serviceVars>>

getSecret(secrets) == IF Len(secrets) > 0 THEN secrets[1] ELSE Nil

\* encrypt seals with the secret getSecret returns.
encrypt ==
  /\ sorted
  /\ getSecret(nodeSecrets) # Nil
  /\ used = Nil
  /\ used' = getSecret(nodeSecrets)
  /\ UNCHANGED <<nodeSecrets, sorted>>
  /\ UNCHANGED bounceVars
  /\ UNCHANGED <<pairVars, countVars, nodesVars, serviceVars>>

SecretNext ==
  \/ addSecret
  \/ sortSecrets
  \/ encrypt

SecretSpec == SecretInit /\ [][SecretNext]_vars

(***************************************************************************)
(* The byte encoding of the operation: asByteArray writes the persisted    *)
(* fields and the resolved pairs, setFromByteArray reads them into a new   *)
(* operation.  Strings are sequences of bytes.                             *)
(***************************************************************************)
resultSeparator == <<13>>

htmlWrite(b, h) ==
  writeString(writeString(writeString(writeString(writeString(b,
    h.Title), h.Message), h.BackgroundColor), h.MessageColor),
    h.ProgressColor)

htmlSet(b) ==
  LET t == readString(b)
      m == readString(t.rest)
      g == readString(m.rest)
      c == readString(g.rest)
      p == readString(c.rest)
  IN IF failed(t) THEN t
     ELSE IF failed(m) THEN m
     ELSE IF failed(g) THEN g
     ELSE IF failed(c) THEN c
     ELSE IF failed(p) THEN p
     ELSE [value |-> [Title |-> t.value, Message |-> m.value,
                      BackgroundColor |-> g.value, MessageColor |-> c.value,
                      ProgressColor |-> p.value],
           rest |-> p.rest]

writeToBuffer(b, p) ==
  writeString(writeDate(writeTime(writeByte(writeString(b,
    p.key), p.conflict), p.created), p.expires), p.value)

setFromBuffer(b) ==
  LET k == readString(b)
      f == readByte(k.rest)
      c == readTime(f.rest)
      e == readDate(c.rest)
      v == readString(e.rest)
  IN IF failed(k) THEN k
     ELSE IF failed(f) THEN f
     ELSE IF failed(c) THEN c
     ELSE IF failed(e) THEN e
     ELSE IF failed(v) THEN v
     ELSE [value |-> [key |-> k.value, created |-> c.value,
                      expires |-> e.value, value |-> v.value,
                      conflict |-> f.value, cookieWriteTime |-> ZeroTime],
           rest |-> v.rest]

RECURSIVE writePairs(_, _)
writePairs(b, ps) ==
  IF ps = <<>> THEN b ELSE writePairs(writeToBuffer(b, Head(ps)), Tail(ps))

RECURSIVE readPairs(_, _)
readPairs(b, c) ==
  IF c = 0 THEN [value |-> <<>>, rest |-> b]
  ELSE LET p == setFromBuffer(b)
       IN IF failed(p) THEN p
          ELSE LET r == readPairs(p.rest, c - 1)
               IN IF failed(r) THEN r
                  ELSE [value |-> <<p.value>> \o r.value, rest |-> r.rest]

asByteArrayOf(o) ==
  writePairs(
    writeByte(
      writeString(writeString(writeString(
        writeByte(writeByte(
          htmlWrite(
            writeString(writeString(writeTime(<<>>, o.timeStamp),
                                    o.returnURL), o.accessNode),
            o.HTML),
          o.nodesVisited), o.nodeCount),
        o.prevNode), o.homeNode), Join(o.state, resultSeparator)),
      byte(Len(o.resolved))),
    o.resolved)

setState(s) == Split(s, resultSeparator)

setFromByteArray(o, d) ==
  LET t == readTime(d)
      u == readString(t.rest)
      a == readString(u.rest)
      h == htmlSet(a.rest)
      v == readByte(h.rest)
      n == readByte(v.rest)
      p == readString(n.rest)
      m == readString(p.rest)
      s == readString(m.rest)
      c == readByte(s.rest)
      r == readPairs(c.rest, c.value)
  IN IF failed(t) THEN t
     ELSE IF failed(u) THEN u
     ELSE IF failed(a) THEN a
     ELSE IF failed(h) THEN h
     ELSE IF failed(v) THEN v
     ELSE IF failed(n) THEN n
     ELSE IF failed(p) THEN p
     ELSE IF failed(m) THEN m
     ELSE IF failed(s) THEN s
     ELSE IF failed(c) THEN c
     ELSE IF failed(r) THEN r
     ELSE IF r.rest # <<>> THEN [err |-> "bytes remaining"]
     ELSE [o EXCEPT !.timeStamp = t.value, !.returnURL = u.value,
                    !.accessNode = a.value, !.HTML = h.value,
                    !.nodesVisited = v.value, !.nodeCount = n.value,
                    !.prevNode = p.value, !.homeNode = m.value,
                    !.state = setState(s.value),
                    !.pairs = o.pairs \o r.value]

NoHTML ==
  [Title |-> <<>>, Message |-> <<>>, BackgroundColor |-> <<>>,
   MessageColor |-> <<>>, ProgressColor |-> <<>>]

newOperation(t) ==
  [timeStamp |-> t, returnURL |-> <<>>, accessNode |-> <<>>, HTML |-> NoHTML,
   nodesVisited |-> 0, nodeCount |-> 0, prevNode |-> <<>>, homeNode |-> <<>>,
   state |-> <<>>, pairs |-> <<>>, resolved |-> <<>>]

newOperationFromByteArray(d, t) == setFromByteArray(newOperation(t), d)

\* The operations the codec is checked on.  The expiry of a pair is the
\* zero time of a pair without a value, or a day after the creation, up to
\* the first day that no 16 bit day count reaches.
CodecStrings == {<<>>, <<97>>}
CodecStates == {<<>>, <<<<97>>>>, <<<<97>>, <<98>>>>}
CodecExpires == {MaxTime + 1, Far, ioDateBase + 65535, ioDateBase + 65536}
CodecPairs ==
  {createPairWithNoValue(<<120>>, c) : c \in {conflictNewest, conflictAdd}}
    \cup {createPairWithValue(<<121>>, conflictOldest, <<98>>, e, t) :
            e \in CodecExpires, t \in {MaxCreated}}
CodecPairLists ==
  {<<>>} \cup {<<p>> : p \in CodecPairs}
    \cup {<<p, q>> : p \in CodecPairs, q \in CodecPairs}
CodecOperations ==
  {[timeStamp |-> t, returnURL |-> u, accessNode |-> <<97>>,
    HTML |-> [NoHTML EXCEPT !.Title = u],
    nodesVisited |-> 1, nodeCount |-> ConfigNodeCount,
    prevNode |-> u, homeNode |-> <<104>>,
    state |-> s, pairs |-> r, resolved |-> r] :
     t \in 1..MaxTime, u \in CodecStrings, s \in CodecStates,
     r \in CodecPairLists}

CodecInit ==
  /\ CodecRestIdle
  /\ sent \in CodecOperations
  /\ buffer = Nil
  /\ received = Nil

\* The sending node writes the operation into the next URL.
Send ==
  /\ buffer = Nil
  /\ buffer' = [bytes |-> asByteArrayOf(sent)]
  /\ UNCHANGED <<sent, received>>
  /\ UNCHANGED codecRest

\* The receiving node reads the operation from the URL.
Receive ==
  /\ buffer # Nil
  /\ received = Nil
  /\ received' = newOperationFromByteArray(buffer.bytes, now)
  /\ UNCHANGED <<sent, buffer>>
  /\ UNCHANGED codecRest

CodecNext ==
  \/ Send
  \/ Receive

CodecSpec == CodecInit /\ [][CodecNext]_vars

(***************************************************************************)
(* storageManager.go: the construction of the storage manager.  A store    *)
(* has a name, a read only flag and its nodes by domain; the manager has   *)
(* the stores it was built from and the nodes of all of them by domain.    *)
(***************************************************************************)
MaxConfigured == 2
MaxMaxStores == 3

nodeOf(d, net, role, starts, isAlive) ==
  [domain |-> d, network |-> net, role |-> role, starts |-> starts,
   alive |-> isAlive]

\* base.init: the nodes by domain.
newVolatile(name, readOnly, ns) ==
  [name |-> name, readOnly |-> readOnly,
   nodes |-> [d \in {n.domain : n \in ns} |->
                CHOOSE n \in ns : n.domain = d]]

getSharingNodesFromStore(s) ==
  {s.nodes[d] : d \in {e \in DOMAIN s.nodes : s.nodes[e].role = roleShare}}

\* iterateNodes(addNode, sm.nodes): st[n.domain] = n for every node.
addNodes(ns, s) ==
  [d \in DOMAIN ns \cup DOMAIN s.nodes |->
     IF d \in DOMAIN s.nodes THEN s.nodes[d] ELSE ns[d]]

\* fmt.Sprintf("v-%d", i)
volatileNames == <<"v-0", "v-1", "v-2", "v-3", "v-4", "v-5">>

ShareDomains == {"h1", "h2"}

Share(d) == nodeOf(d, "net", roleShare, 0, TRUE)
Storing(d) == nodeOf(d, "net", roleStorage, 0, TRUE)

\* What a share node answers: nothing that can be read, or a roster, which
\* can list share nodes, the node asked among them.
ShareRosters ==
  {{}, {Storing("s1")}, {Share("h1"), Share("h2")},
   {Storing("s2"), Share("h1")}, {Storing("s2"), Share("h2")},
   {Storing("s3"), Share("h1"), Share("h2")}}

ConfiguredStores ==
  {newVolatile("one", FALSE, {Storing("s1"), Share("h1")}),
   newVolatile("two", FALSE, {Storing("s2")}),
   newVolatile("three", TRUE, {Share("h1"), Share("h2")})}

Configured ==
  UNION {[1..n -> ConfiguredStores] : n \in 1..MaxConfigured}

ConstructInit ==
  /\ ConstructRestIdle
  /\ sts \in Configured
  /\ idx = 0
  /\ pending = {}
  /\ checkedNodes = {}
  /\ called = [d \in ShareDomains |-> <<>>]
  /\ built = [stores |-> <<>>, nodes |-> <<>>]
  /\ at = "check"
  /\ maxStores \in 1..MaxMaxStores

\* Variant: the number of stores is not checked.
checkStores_NoMaximum ==
  /\ at = "check"
  /\ idx < Len(sts)
  /\ pending' = getSharingNodesFromStore(sts[idx + 1])
  /\ at' = "share"
  /\ UNCHANGED <<sts, idx, checkedNodes, called, built, maxStores>>
  /\ UNCHANGED constructRest

\* The head of the loop over the stores: the maximum number of stores, then
\* the share nodes of the store in turn.
checkStores ==
  /\ at = "check"
  /\ idx < Len(sts)
  /\ IF Len(sts) > maxStores
     THEN /\ at' = "error"
          /\ built' = Nil
          /\ UNCHANGED pending
     ELSE /\ pending' = getSharingNodesFromStore(sts[idx + 1])
          /\ at' = "share"
          /\ UNCHANGED built
  /\ UNCHANGED <<sts, idx, checkedNodes, called, maxStores>>
  /\ UNCHANGED constructRest

\* Variant: a share node is called whether it has been evaluated or not.
callShare_Unchecked ==
  /\ at = "share"
  /\ \E n \in pending :
       /\ pending' = pending \ {n}
       /\ checkedNodes' = checkedNodes \cup {n.domain}
       /\ \E nodes \in ShareRosters :
            /\ called' = [called EXCEPT ![n.domain] = Append(@, nodes)]
            /\ sts' = IF \E sn \in nodes : sn.role = roleStorage
                      THEN Append(sts, newVolatile(volatileNames[idx + 1], TRUE, nodes))
                      ELSE sts
  /\ UNCHANGED <<idx, built, at, maxStores>>
  /\ UNCHANGED constructRest

\* One share node of the store in turn: skipped if it has been evaluated,
\* else called, and its roster made a read only store if it has a storage
\* node.
callShare ==
  /\ at = "share"
  /\ \E n \in pending :
       /\ pending' = pending \ {n}
       /\ IF n.domain \in checkedNodes
          THEN UNCHANGED <<checkedNodes, called, sts>>
          ELSE /\ checkedNodes' = checkedNodes \cup {n.domain}
               /\ \E nodes \in ShareRosters :
                    /\ called' = [called EXCEPT ![n.domain] = Append(@, nodes)]
                    /\ sts' = IF \E sn \in nodes : sn.role = roleStorage
                              THEN Append(sts,
                                          newVolatile(volatileNames[idx + 1], TRUE, nodes))
                              ELSE sts
  /\ UNCHANGED <<idx, built, at, maxStores>>
  /\ UNCHANGED constructRest

\* The end of the loop body: the nodes of the store are added to the map of
\* the manager and the store to its stores.
addStore ==
  /\ at = "share"
  /\ pending = {}
  /\ built' = [stores |-> Append(built.stores, sts[idx + 1]),
               nodes |-> addNodes(built.nodes, sts[idx + 1])]
  /\ idx' = idx + 1
  /\ at' = "check"
  /\ UNCHANGED <<sts, pending, checkedNodes, called, maxStores>>
  /\ UNCHANGED constructRest

\* The loop is over: the alive service is created and the manager returned.
returnManager ==
  /\ at = "check"
  /\ idx >= Len(sts)
  /\ at' = "manager"
  /\ UNCHANGED <<sts, idx, pending, checkedNodes, called, built, maxStores>>
  /\ UNCHANGED constructRest

newStorageManager ==
  \/ checkStores
  \/ callShare
  \/ addStore
  \/ returnManager

ConstructSpec == ConstructInit /\ [][newStorageManager]_vars

\* The construction is one call: it goes on until it returns.
ConstructFairSpec == ConstructSpec /\ WF_constructVars(newStorageManager)

(***************************************************************************)
(* storageManager.go: the calls of the storage manager.  A store keeps its *)
(* nodes in memory; a volatile store has nothing else, a store with a back *)
(* end (a table or a file) writes a node to the back end and reads the     *)
(* back end on refresh, which fails when the back end is not available.    *)
(***************************************************************************)
MaxBackends == 2

newStore(name, kind, readOnly, available, ns) ==
  [name |-> name, kind |-> kind, readOnly |-> readOnly,
   available |-> available,
   nodes |-> newVolatile(name, readOnly, ns).nodes,
   saved |-> newVolatile(name, readOnly, ns).nodes]

\* store.refresh: the nodes are read from the back end.
refreshStore(s) == [s EXCEPT !.nodes = s.saved]

\* base.getNodes: c.networks[network], nil if no node has the network.
networkOf(s, net) ==
  LET ds == {d \in DOMAIN s.nodes : s.nodes[d].network = net}
  IN IF ds = {} THEN Nil ELSE [dict |-> [d \in ds |-> s.nodes[d]]]

\* Store.getNodes: a store with a back end that does not have the network
\* refreshes and looks again.
getNodesOfStore(s, net) ==
  IF networkOf(s, net) # Nil \/ s.kind = "volatile"
  THEN [store |-> s, value |-> networkOf(s, net), err |-> FALSE]
  ELSE IF ~s.available
  THEN [store |-> s, value |-> Nil, err |-> TRUE]
  ELSE [store |-> refreshStore(s),
        value |-> networkOf(refreshStore(s), net), err |-> FALSE]

\* Store.setNode
setNodeOfStore(s, n) ==
  IF s.readOnly THEN [store |-> s, err |-> TRUE]
  ELSE IF s.kind = "volatile"
  THEN [store |-> [s EXCEPT !.nodes = addNodes(@, [nodes |-> n.domain :> n])],
        err |-> FALSE]
  ELSE IF ~s.available THEN [store |-> s, err |-> TRUE]
  ELSE [store |-> [s EXCEPT !.saved = addNodes(@, [nodes |-> n.domain :> n])],
        err |-> FALSE]

\* storageManager.getNodes: the stores in order, to the first error or the
\* first store that has the network.
RECURSIVE getNodes(_, _, _)
getNodes(bs, i, net) ==
  IF i > Len(bs) THEN [backends |-> bs, value |-> Nil, err |-> FALSE]
  ELSE LET r == getNodesOfStore(bs[i], net)
           cs == [bs EXCEPT ![i] = r.store]
       IN IF r.err THEN [backends |-> cs, value |-> Nil, err |-> TRUE]
          ELSE IF r.value # Nil
          THEN [backends |-> cs, value |-> r.value, err |-> FALSE]
          ELSE getNodes(cs, i + 1, net)

\* The callback of getAllActiveNodes on one node.
isAliveAndStarted(n, t) == n.alive /\ n.starts < t

\* iterateNodes with the callback of getAllActiveNodes over the nodes in the
\* order a: the callback appends the node, or returns an error and ends the
\* iteration.
RECURSIVE iterateActive(_, _, _)
iterateActive(a, st, t) ==
  IF a = <<>> THEN [value |-> st, err |-> FALSE]
  ELSE IF isAliveAndStarted(Head(a), t)
       THEN iterateActive(Tail(a), Append(st, Head(a)), t)
       ELSE [value |-> st, err |-> TRUE]

\* storageManager.getAllActiveNodes: what it can return, the stores in
\* order and the nodes of a store in any order.
RECURSIVE getAllActiveNodes(_, _, _, _)
getAllActiveNodes(bs, i, st, t) ==
  IF i > Len(bs) THEN {[value |-> st, err |-> FALSE]}
  ELSE UNION {LET r == iterateActive(a, st, t)
              IN IF r.err THEN {[value |-> <<>>, err |-> TRUE]}
                 ELSE getAllActiveNodes(bs, i + 1, r.value, t) :
                a \in Orders(Range(bs[i].nodes))}

RECURSIVE setAll(_, _)
setAll(s, ns) ==
  IF ns = <<>> THEN [store |-> s, err |-> FALSE]
  ELSE LET r == setNodeOfStore(s, Head(ns))
       IN IF r.err THEN r ELSE setAll(r.store, Tail(ns))

\* Variant: the nodes are written to the first writable store that matches.
setNodes_First(bs, storeName, ns) ==
  LET stores == {i \in 1..Len(bs) :
                   /\ ~bs[i].readOnly
                   /\ storeName = "" \/ bs[i].name = storeName}
  IN IF Len(ns) = 0 THEN [backends |-> bs, err |-> TRUE]
     ELSE IF stores = {} THEN [backends |-> bs, err |-> TRUE]
     ELSE LET r == setAll(bs[Min(stores)], ns)
          IN [backends |-> [bs EXCEPT ![Min(stores)] = r.store],
              err |-> r.err]

setNodes(bs, storeName, ns) ==
  LET stores == {i \in 1..Len(bs) :
                   /\ ~bs[i].readOnly
                   /\ storeName = "" \/ bs[i].name = storeName}
  IN IF Len(ns) = 0 THEN [backends |-> bs, err |-> TRUE]
     ELSE IF stores = {} THEN [backends |-> bs, err |-> TRUE]
     ELSE IF Cardinality(stores) > 1 THEN [backends |-> bs, err |-> TRUE]
     ELSE LET r == setAll(bs[Min(stores)], ns)
          IN [backends |-> [bs EXCEPT ![Min(stores)] = r.store],
              err |-> r.err]

\* The stores a service is configured with: nodes that are alive and nodes
\* that are not, nodes that have started and one that starts later, a read
\* only store, and a store whose back end is not available.
BackendStores ==
  {newStore("a", "volatile", FALSE, TRUE,
            {nodeOf("n1", "net", roleStorage, 0, TRUE)}),
   newStore("b", "volatile", FALSE, TRUE,
            {nodeOf("n2", "net", roleStorage, 0, FALSE),
             nodeOf("n3", "other", roleStorage, 0, TRUE)}),
   newStore("c", "table", FALSE, TRUE,
            {nodeOf("n4", "other", roleAccess, 0, TRUE)}),
   newStore("c", "table", FALSE, FALSE,
            {nodeOf("n4", "other", roleAccess, 0, TRUE)}),
   newStore("r", "volatile", TRUE, TRUE,
            {nodeOf("n5", "net", roleStorage, Far, TRUE)}),
   newStore("r", "volatile", TRUE, TRUE,
            {nodeOf("n6", "net", roleStorage, 0, TRUE)})}

Backends == UNION {[1..n -> BackendStores] : n \in 1..MaxBackends}

\* The nodes of the stores up to store i, added store by store: the node of
\* a later store replaces the node of the same domain of an earlier one.
RECURSIVE allNodes(_, _)
allNodes(bs, i) ==
  IF i = 0 THEN <<>> ELSE addNodes(allNodes(bs, i - 1), bs[i])

\* The manager newStorageManager builds from stores without share nodes.
managerOf(bs) ==
  [stores |-> [i \in 1..Len(bs) |-> i], nodes |-> allNodes(bs, Len(bs))]

NetworkNames == {"net", "other", "none"}
StoreNames == {"", "a", "c", "r"}
NodesToSet ==
  {<<>>, <<nodeOf("n7", "net", roleStorage, 0, FALSE)>>,
   <<nodeOf("n1", "other", roleStorage, 0, FALSE),
     nodeOf("n7", "net", roleStorage, 0, FALSE)>>}

ManageInit ==
  /\ ManageRestIdle
  /\ backends \in Backends
  /\ sm = managerOf(backends)
  /\ reply = Nil

GetNodes ==
  \E net \in NetworkNames :
    LET r == getNodes(backends, 1, net)
    IN /\ backends' = r.backends
       /\ reply' = [op |-> "getNodes", network |-> net, before |-> backends,
                    value |-> r.value, err |-> r.err]
       /\ UNCHANGED sm
       /\ UNCHANGED manageRest

GetAllActiveNodes ==
  \E r \in getAllActiveNodes(backends, 1, <<>>, now) :
    /\ reply' = [op |-> "getAllActiveNodes", before |-> backends,
                 value |-> r.value, err |-> r.err]
    /\ UNCHANGED <<backends, sm>>
    /\ UNCHANGED manageRest

SetNodes ==
  \E storeName \in StoreNames, ns \in NodesToSet :
    LET r == setNodes(backends, storeName, ns)
    IN /\ backends' = r.backends
       /\ reply' = [op |-> "setNodes", store |-> storeName, nodes |-> ns,
                    before |-> backends, err |-> r.err]
       /\ UNCHANGED sm
       /\ UNCHANGED manageRest

ManageNext ==
  \/ GetNodes
  \/ GetAllActiveNodes
  \/ SetNodes

ManageSpec == ManageInit /\ [][ManageNext]_vars

(***************************************************************************)
(* local.go: refresh against the readers of the store.  The maps l.nodes   *)
(* and l.networks are known by their generation: refresh number g fetches  *)
(* the maps of generation g and assigns them under the mutex; getNode and  *)
(* getNodes read l.nodes and l.networks without the mutex.                 *)
(***************************************************************************)
MaxRefreshes == 2
MaxRequests == 2
NotRead == -1

LocalInit ==
  /\ LocalRestIdle
  /\ maps = [nodes |-> 0, networks |-> 0]
  /\ mutex = "free"
  /\ task = [pc |-> "idle", gen |-> 0]
  /\ reader = [nodes |-> NotRead, networks |-> NotRead, served |-> 0]

\* refresh up to the lock: the nodes are fetched and the networks built.
fetchNodes ==
  /\ task.pc = "idle"
  /\ task.gen < MaxRefreshes
  /\ task' = [pc |-> "fetched", gen |-> task.gen + 1]
  /\ UNCHANGED <<maps, mutex, reader>>
  /\ UNCHANGED localRest

Lock ==
  /\ task.pc = "fetched"
  /\ mutex = "free"
  /\ mutex' = "held"
  /\ task' = [task EXCEPT !.pc = "locked"]
  /\ UNCHANGED <<maps, reader>>
  /\ UNCHANGED localRest

\* l.nodes = ns
assignNodes ==
  /\ task.pc = "locked"
  /\ maps' = [maps EXCEPT !.nodes = task.gen]
  /\ task' = [task EXCEPT !.pc = "nodes"]
  /\ UNCHANGED <<mutex, reader>>
  /\ UNCHANGED localRest

\* l.networks = nets
assignNetworks ==
  /\ task.pc = "nodes"
  /\ maps' = [maps EXCEPT !.networks = task.gen]
  /\ task' = [task EXCEPT !.pc = "networks"]
  /\ UNCHANGED <<mutex, reader>>
  /\ UNCHANGED localRest

Unlock ==
  /\ task.pc = "networks"
  /\ mutex' = "free"
  /\ task' = [task EXCEPT !.pc = "idle"]
  /\ UNCHANGED <<maps, reader>>
  /\ UNCHANGED localRest

\* What a read of a map without the mutex can find: the map assigned last,
\* or, while the refresh that assigned it holds the mutex, the map before.
Visible(g) ==
  IF mutex = "held" /\ g = task.gen THEN {g - 1, g} ELSE {g}

\* base.getNode: c.nodes[domain]
readNodes ==
  /\ reader.nodes = NotRead
  /\ \E g \in Visible(maps.nodes) : reader' = [reader EXCEPT !.nodes = g]
  /\ UNCHANGED <<maps, mutex, task>>
  /\ UNCHANGED localRest

\* base.getNodes: c.networks[network]
readNetworks ==
  /\ reader.networks = NotRead
  /\ \E g \in Visible(maps.networks) : reader' = [reader EXCEPT !.networks = g]
  /\ UNCHANGED <<maps, mutex, task>>
  /\ UNCHANGED localRest

\* The request is over and another one begins.
nextRequest ==
  /\ reader.nodes # NotRead
  /\ reader.networks # NotRead
  /\ reader.served < MaxRequests
  /\ reader' = [nodes |-> NotRead, networks |-> NotRead,
                served |-> reader.served + 1]
  /\ UNCHANGED <<maps, mutex, task>>
  /\ UNCHANGED localRest

LocalNext ==
  \/ fetchNodes
  \/ Lock
  \/ assignNodes
  \/ assignNetworks
  \/ Unlock
  \/ readNodes
  \/ readNetworks
  \/ nextRequest

LocalSpec == LocalInit /\ [][LocalNext]_vars

(***************************************************************************)
(* The storage service.  A storage manager is known by its generation:     *)
(* NewStorageService builds manager 0 and each tick of the refresher       *)
(* builds the next.  NewStorageService returns its storageService by value *)
(* and Services keeps that value, so the handlers read the store field of  *)
(* a copy while startStorageService assigns the store field of the struct  *)
(* it was started on.                                                      *)
(***************************************************************************)
MaxTicks == 2
NotBuilt == -1
lookups == <<"thisNode", "network", "homeNode", "prevNode">>

\* NewStorageService and NewServices.
StorageInit ==
  /\ StorageRestIdle
  /\ svc = [store |-> 0]
  /\ services = [store |-> [store |-> 0]]
  /\ refresher = [pc |-> "waiting", newStore |-> NotBuilt, ticks |-> 0]
  /\ request = [used |-> <<>>, swapped |-> FALSE, served |-> 0]

\* A tick: newStorageManager returns the next manager, or an error.
tickNewStore ==
  /\ refresher.pc = "waiting"
  /\ refresher.ticks < MaxTicks
  /\ \E ok \in BOOLEAN :
       refresher' = [pc |-> "built",
                     newStore |-> IF ok THEN svc.store + 1 ELSE NotBuilt,
                     ticks |-> refresher.ticks + 1]
  /\ UNCHANGED <<svc, services, request>>
  /\ UNCHANGED storageRest

\* The rest of the tick: the error is logged, or svc.store = newStore.
swapStore ==
  /\ refresher.pc = "built"
  /\ refresher' = [refresher EXCEPT !.pc = "waiting", !.newStore = NotBuilt]
  /\ IF refresher.newStore = NotBuilt
       THEN UNCHANGED <<svc, request>>
       ELSE /\ svc' = [svc EXCEPT !.store = refresher.newStore]
            /\ request' = [request EXCEPT
                 !.swapped = @ \/ (0 < Len(request.used)
                                   /\ Len(request.used) < Len(lookups))]
  /\ UNCHANGED services
  /\ UNCHANGED storageRest

\* Variant: the handlers use the storage service the refresher works on.
storeOfRequest_Shared == svc.store

\* The manager a lookup of a handler reaches: s.store.store.
storeOfRequest == services.store.store

\* The next lookup of the request: this node, its network, the home node,
\* the previous node.
getFromStore ==
  /\ Len(request.used) < Len(lookups)
  /\ request' = [request EXCEPT !.used = Append(@, storeOfRequest)]
  /\ UNCHANGED <<svc, services, refresher>>
  /\ UNCHANGED storageRest

\* The request is over and another one begins.
endRequest ==
  /\ Len(request.used) = Len(lookups)
  /\ request.served < MaxRequests
  /\ request' = [used |-> <<>>, swapped |-> FALSE,
                 served |-> request.served + 1]
  /\ UNCHANGED <<svc, services, refresher>>
  /\ UNCHANGED storageRest

StorageNext ==
  \/ tickNewStore
  \/ swapStore
  \/ getFromStore
  \/ endRequest

StorageSpec == StorageInit /\ [][StorageNext]_vars

(***************************************************************************)
(* The alive service: aliveLoop polls every node of the storage manager on *)
(* each tick, and the storage handler marks the previous node of an        *)
(* operation as accessed meanwhile.                                        *)
(***************************************************************************)
pollingInterval == 2
MaxClock == 4
PollDomains == {"p1", "p2"}
Nonces == {1, 2}
Bodies == Nonces \cup {0}

\* time.Time.Sub: the duration t - u, the largest duration for the zero time.
Sub(t, u) == IF u = ZeroTime THEN maxDuration ELSE t - u

\* newAliveService: the nodes are as the stores made them and the ticker is
\* started with the polling interval.
PollInit ==
  /\ PollRestIdle
  /\ known = [d \in PollDomains |-> [alive |-> FALSE, accessed |-> ZeroTime]]
  /\ clock = 1
  /\ loop = [pc |-> "waiting", todo |-> {}, next |-> 1 + pollingInterval]
  /\ poll = Nil

calling == poll # Nil /\ poll.pc = "calling"

\* Time passes.
tickClock ==
  /\ clock < MaxClock
  /\ clock' = clock + 1
  /\ UNCHANGED <<known, loop, poll>>
  /\ UNCHANGED pollRest

\* The ticker fires: it is stopped and the nodes are ranged over.
aliveLoop ==
  /\ loop.pc = "waiting"
  /\ clock >= loop.next
  /\ loop' = [loop EXCEPT !.pc = "polling", !.todo = PollDomains]
  /\ UNCHANGED <<known, clock, poll>>
  /\ UNCHANGED pollRest

\* pollNode up to the call of the alive endpoint: nothing for a node accessed
\* within the polling interval; not alive when no nonce can be made; else
\* the nonce is encrypted, an error of which is only logged, and sent.
pollNode(d) ==
  /\ loop.pc = "polling"
  /\ ~calling
  /\ d \in loop.todo
  /\ loop' = [loop EXCEPT !.todo = @ \ {d}]
  /\ IF Sub(clock, known[d].accessed) >= pollingInterval
       THEN \E nonce \in Nonces \cup {0} :
              IF nonce = 0
                THEN /\ known' = [known EXCEPT ![d].alive = FALSE]
                     /\ poll' = [pc |-> "returned", domain |-> d,
                                 nonce |-> nonce, reply |-> [err |-> "nonce"]]
                ELSE /\ poll' = [pc |-> "calling", domain |-> d,
                                 nonce |-> nonce, reply |-> Nil]
                     /\ UNCHANGED known
       ELSE UNCHANGED <<known, poll>>
  /\ UNCHANGED clock
  /\ UNCHANGED pollRest

\* Variant: any reply of the peer makes the node alive.
callAlive_AnyReply ==
  /\ calling
  /\ \E r \in {[err |-> "timeout"]} \cup {[body |-> b] : b \in Bodies},
        dt \in {0, 1} :
       /\ clock + dt <= MaxClock
       /\ clock' = clock + dt
       /\ poll' = [poll EXCEPT !.pc = "returned", !.reply = r]
       /\ known' = [known EXCEPT ![poll.domain] =
            IF failed(r) THEN [@ EXCEPT !.alive = FALSE]
            ELSE [alive |-> TRUE, accessed |-> clock']]
  /\ UNCHANGED loop
  /\ UNCHANGED pollRest

\* pollNode from the call of the alive endpoint: the call takes some time and
\* fails or returns the body of the response; the node is alive and accessed
\* now when the body is the nonce, else not alive.
callAlive ==
  /\ calling
  /\ \E r \in {[err |-> "timeout"]} \cup {[body |-> b] : b \in Bodies},
        dt \in {0, 1} :
       /\ clock + dt <= MaxClock
       /\ clock' = clock + dt
       /\ poll' = [poll EXCEPT !.pc = "returned", !.reply = r]
       /\ known' = [known EXCEPT ![poll.domain] =
            IF failed(r) THEN [@ EXCEPT !.alive = FALSE]
            ELSE IF r.body = poll.nonce
              THEN [alive |-> TRUE, accessed |-> clock']
              ELSE [@ EXCEPT !.alive = FALSE]]
  /\ UNCHANGED loop
  /\ UNCHANGED pollRest

\* The nodes are all polled: the ticker is reset.
resetTicker ==
  /\ loop.pc = "polling"
  /\ ~calling
  /\ loop.todo = {}
  /\ loop' = [loop EXCEPT !.pc = "waiting", !.next = clock + pollingInterval]
  /\ UNCHANGED <<known, clock, poll>>
  /\ UNCHANGED pollRest

\* The storage handler: the previous node of the operation is accessed now
\* and alive.
accessPrevNode(d) ==
  /\ known' = [known EXCEPT ![d] = [alive |-> TRUE, accessed |-> clock]]
  /\ UNCHANGED <<clock, loop, poll>>
  /\ UNCHANGED pollRest

PollNext ==
  \/ tickClock
  \/ aliveLoop
  \/ \E d \in PollDomains : pollNode(d)
  \/ callAlive
  \/ resetTicker
  \/ \E d \in PollDomains : accessPrevNode(d)

PollSpec == PollInit /\ [][PollNext]_vars

(***************************************************************************)
(* handlerRegister.go: the registration of a domain in a Local store.      *)
(* The handler asks the storage manager for the node of the host; the      *)
(* nodes of a storage manager are those its stores held when it was made.  *)
(***************************************************************************)
MaxRegistrations == 3
RegDomains == {"r1", "r2"}
NoKey == 0

\* The forms submitted: the network, the role, whether the expiry date is
\* in the future, the secret and scramble fields and the store named.
RegisterForms ==
  [network : {"ab", "network"}, role : {roleStorage, 7},
   expiresOK : BOOLEAN, secret : BOOLEAN, scramble : BOOLEAN,
   store : {"", "other"}]

\* The record and the secrets of a domain registered before the storage
\* service was made.
earlierItem ==
  [node |-> [network |-> "network", created |-> 0, role |-> roleStorage,
             scrambleKey |-> NoKey],
   secrets |-> <<1>>]

\* NewStorageService: the storage manager of the handlers holds the nodes
\* the store holds then.
RegisterInit ==
  /\ RegisterRestIdle
  /\ \E held \in SUBSET RegDomains :
       /\ handlerNodes = held
       /\ first = [d \in RegDomains |->
                     IF d \in held THEN earlierItem ELSE Nil]
       /\ disk = [nodes |-> [d \in RegDomains |->
                               IF d \in held THEN earlierItem.node ELSE Nil],
                  secrets |-> [d \in RegDomains |->
                               IF d \in held THEN earlierItem.secrets
                               ELSE <<>>]]
  /\ requests = 0

\* newSecret: a key no earlier request made; the n-th of the request at t.
newSecret(t, n) == 2 * t + n

\* Local.setNodeSecrets: the secrets of the node whose key the file does not
\* hold are appended to those of its domain.
setNodeSecrets(dk, d, keys) ==
  LET held == {dk.secrets[d][i] : i \in 1..Len(dk.secrets[d])}
      new == SelectSeq(keys, LAMBDA k : k \notin held)
  IN [dk EXCEPT !.secrets[d] = @ \o new]

\* Local.setNode: the secrets, then the record of the domain is replaced.
localSetNode(dk, d, n, keys) ==
  [setNodeSecrets(dk, d, keys) EXCEPT !.nodes[d] = n]

\* storeNode: the node is made with a new scrambler key and a first secret
\* and set in the store named, the one writable store when none is named.
storeNode(dk, d, f, t) ==
  LET n == [network |-> f.network, created |-> t, role |-> f.role,
            scrambleKey |-> IF f.scramble THEN newSecret(t, 0) ELSE NoKey]
      keys == IF f.secret THEN <<newSecret(t, 1)>> ELSE <<>>
  IN IF f.store \in {"", "local"}
     THEN [disk |-> localSetNode(dk, d, n, keys), stored |-> TRUE]
     ELSE [disk |-> dk, stored |-> FALSE]

valid(f) ==
  /\ f.expiresOK
  /\ f.role \in {roleAccess, roleStorage, roleShare}
  /\ Len(f.network) > 3
  /\ Len(f.network) <= 20

\* HandlerRegister: nothing for a host the storage manager has a node for;
\* else the form is read and, when it is valid, the node stored.
HandlerRegister(d, f) ==
  /\ requests < MaxRegistrations
  /\ requests' = requests + 1
  /\ IF d \in handlerNodes \/ ~valid(f)
       THEN UNCHANGED <<disk, first>>
       ELSE LET out == storeNode(disk, d, f, requests')
            IN /\ disk' = out.disk
               /\ first' = IF out.stored /\ first[d] = Nil
                           THEN [first EXCEPT ![d] =
                                   [node |-> out.disk.nodes[d],
                                    secrets |-> out.disk.secrets[d]]]
                           ELSE first
  /\ UNCHANGED handlerNodes
  /\ UNCHANGED registerRest

RegisterNext ==
  \E d \in RegDomains, f \in RegisterForms : HandlerRegister(d, f)

RegisterSpec == RegisterInit /\ [][RegisterNext]_vars

(***************************************************************************)
(* handlerCreate.go: the access node of the operation that Create makes.   *)
(***************************************************************************)
AccessDomains == {"d1", "d2", "d3"}
AccessNetworks == {"n1", "n2"}
Roles == {roleAccess, roleStorage, roleShare}

\* The nodes of the storage manager: every domain but those it has no node
\* for is given a network and a role.
Registries ==
  [AccessDomains -> {Nil} \cup [network : AccessNetworks, role : Roles]]

AccessInit ==
  /\ AccessRestIdle
  /\ registry \in Registries
  /\ creation = Nil

\* setAccessNode: the creating node when the form names none; else the node
\* named, which must be known and of the network of the creating node.
setAccessNode(reg, v, a) ==
  IF v = ""
  THEN [accessNode |-> a]
  ELSE IF v \notin DOMAIN reg \/ reg[v] = Nil
       THEN [err |-> "is not a valid access node"]
       ELSE IF reg[a].network # reg[v].network
            THEN [err |-> "is not a valid access node for network"]
            ELSE [accessNode |-> v]

\* Create up to the access node of the operation: the host must be a node
\* with the role access.
createFor(reg, h, v) ==
  IF reg[h] = Nil
  THEN [err |-> "is not a SWIFT node"]
  ELSE IF reg[h].role # roleAccess
       THEN [err |-> "is not an access node"]
       ELSE setAccessNode(reg, v, h)

CreateOperation(h, v) ==
  /\ creation = Nil
  /\ creation' = [host |-> h, named |-> v, out |-> createFor(registry, h, v)]
  /\ UNCHANGED registry
  /\ UNCHANGED accessRest

AccessNext ==
  \E h \in AccessDomains, v \in AccessDomains \cup {"", "unknown"} :
    CreateOperation(h, v)

AccessSpec == AccessInit /\ [][AccessNext]_vars

(***************************************************************************)
(* handlerStore.go and operation.go: the steps of one hop in the order the *)
(* code takes them.  A step is written <<kind, pair>> with pair 0 for the  *)
(* steps that are not about one pair.                                      *)
(***************************************************************************)
MaxHopPairs == 2
Branches == {"continue", "return", "postMessage", "warning"}

\* The hops: for each pair whether the request has a cookie that decodes,
\* whether nodes remain to visit, and the branch of HandlerStore; without a
\* next node the hop is done.
Hops ==
  {h \in [cookies : UNION {[1..n -> BOOLEAN] : n \in 1..MaxHopPairs},
          more : BOOLEAN, branch : Branches] :
     ~h.more => h.branch # "continue"}

StepsInit ==
  /\ StepsRestIdle
  /\ given \in Hops
  /\ doing = [pair |-> 1, at |-> "cookie", todo |-> <<>>]
  /\ log = <<>>

\* Variant: storeContinue sends the page before it sets the cookies.
stepsOf_SendFirst(b) ==
  IF b = "continue" THEN <<"respond", "write">>
  ELSE IF b = "return" THEN <<"write", "respond">>
  ELSE IF b = "postMessage" THEN <<"respond">>
  ELSE <<"select", "respond">>

\* What the branch does: storeContinue and storeReturn set the cookies and
\* send the page, storePostMessage sends the page, and storeWarning makes
\* the home node the next node and sends the page.
stepsOf(b) ==
  IF b = "continue" THEN <<"write", "respond">>
  ELSE IF b = "return" THEN <<"write", "respond">>
  ELSE IF b = "postMessage" THEN <<"respond">>
  ELSE <<"select", "respond">>

\* newOperationFromRequest, the loop over the pairs: r.Cookie for the pair.
getPairCookie ==
  /\ doing.at = "cookie"
  /\ doing.pair <= Len(given.cookies)
  /\ log' = Append(log, <<"harvest", doing.pair>>)
  /\ doing' = IF given.cookies[doing.pair]
              THEN [doing EXCEPT !.at = "resolve"]
              ELSE [doing EXCEPT !.pair = @ + 1]
  /\ UNCHANGED given
  /\ UNCHANGED stepsRest

\* newOperationFromRequest, the loop over the pairs: resolveConflict of the
\* pair with its cookie.
resolvePair ==
  /\ doing.at = "resolve"
  /\ log' = Append(log, <<"resolve", doing.pair>>)
  /\ doing' = [doing EXCEPT !.at = "cookie", !.pair = @ + 1]
  /\ UNCHANGED given
  /\ UNCHANGED stepsRest

\* HandlerStore after newOperationFromRequest: the next node is selected
\* when nodes remain, and the branch is taken.
selectNext ==
  /\ doing.at = "cookie"
  /\ doing.pair > Len(given.cookies)
  /\ log' = IF given.more THEN Append(log, <<"select", 0>>) ELSE log
  /\ doing' = [doing EXCEPT !.at = "branch", !.todo = stepsOf(given.branch)]
  /\ UNCHANGED given
  /\ UNCHANGED stepsRest

\* The next step of the branch.
storeStep ==
  /\ doing.at = "branch"
  /\ doing.todo # <<>>
  /\ log' = Append(log, <<Head(doing.todo), 0>>)
  /\ doing' = [doing EXCEPT !.todo = Tail(@)]
  /\ UNCHANGED given
  /\ UNCHANGED stepsRest

StepsNext ==
  \/ getPairCookie
  \/ resolvePair
  \/ selectNext
  \/ storeStep

StepsSpec == StepsInit /\ [][StepsNext]_vars

(***************************************************************************)
(* local.go: getNodes of the Local store.  The store has the networks of   *)
(* its nodes file in memory as of the last refresh; a call of getNodes is  *)
(* a frame on the stack of its goroutine, and the stack has a limit.       *)
(***************************************************************************)
MaxDepth == 3
MaxCalls == 2
LocalNetworks == {"net", "other"}

FindInit ==
  /\ FindRestIdle
  /\ nodesFile \in [readable : BOOLEAN, networks : SUBSET LocalNetworks]
  /\ loaded \in SUBSET nodesFile.networks
  /\ stack = <<>>
  /\ outcome = [network |-> "", value |-> Nil, err |-> FALSE, calls |-> 0,
                fatal |-> FALSE]

\* storageManager.getNodes calls s.getNodes(network) of the store.
callGetNodes(net) ==
  /\ stack = <<>>
  /\ ~outcome.fatal
  /\ outcome.calls < MaxCalls
  /\ stack' = <<"read">>
  /\ outcome' = [network |-> net, value |-> Nil, err |-> FALSE,
                 calls |-> outcome.calls + 1, fatal |-> FALSE]
  /\ UNCHANGED <<nodesFile, loaded>>
  /\ UNCHANGED findRest

\* ns, err := l.common.getNodes(network): with the network in memory every
\* call on the stack returns it, else the call goes on to refresh.
commonGetNodes ==
  /\ stack # <<>>
  /\ stack[Len(stack)] = "read"
  /\ IF outcome.network \in loaded
     THEN /\ stack' = <<>>
          /\ outcome' = [outcome EXCEPT !.value = [network |-> outcome.network]]
     ELSE /\ stack' = [stack EXCEPT ![Len(stack)] = "refresh"]
          /\ UNCHANGED outcome
  /\ UNCHANGED <<nodesFile, loaded>>
  /\ UNCHANGED findRest

\* err = l.refresh(): the networks of the file are read into memory, and
\* every call on the stack returns the error if the file cannot be read.
refreshLocal ==
  /\ stack # <<>>
  /\ stack[Len(stack)] = "refresh"
  /\ IF nodesFile.readable
     THEN /\ loaded' = nodesFile.networks
          /\ stack' = [stack EXCEPT ![Len(stack)] = "again"]
          /\ UNCHANGED outcome
     ELSE /\ stack' = <<>>
          /\ outcome' = [outcome EXCEPT !.err = TRUE]
          /\ UNCHANGED loaded
  /\ UNCHANGED nodesFile
  /\ UNCHANGED findRest

\* ns, err = l.getNodes(network): the call calls itself; at the limit of
\* the stack the runtime ends the process.
getNodesAgain ==
  /\ stack # <<>>
  /\ stack[Len(stack)] = "again"
  /\ ~outcome.fatal
  /\ IF Len(stack) < MaxDepth
     THEN /\ stack' = Append(stack, "read")
          /\ UNCHANGED outcome
     ELSE /\ outcome' = [outcome EXCEPT !.fatal = TRUE]
          /\ UNCHANGED stack
  /\ UNCHANGED <<nodesFile, loaded>>
  /\ UNCHANGED findRest

\* Local.setNode of a registration writes a node, and with it its network,
\* to the nodes file.
writeNodesFile(net) ==
  /\ nodesFile.readable
  /\ ~outcome.fatal
  /\ net \notin nodesFile.networks
  /\ nodesFile' = [nodesFile EXCEPT !.networks = @ \cup {net}]
  /\ UNCHANGED <<loaded, stack, outcome>>
  /\ UNCHANGED findRest

LocalGetNodes ==
  \/ commonGetNodes
  \/ refreshLocal
  \/ getNodesAgain

FindNext ==
  \/ \E net \in LocalNetworks \cup {"none"} : callGetNodes(net)
  \/ LocalGetNodes
  \/ \E net \in LocalNetworks : writeNodesFile(net)

FindSpec == FindInit /\ [][FindNext]_vars

\* A call of getNodes runs until it returns or the process ends.
FindFairSpec == FindSpec /\ WF_findVars(LocalGetNodes)

(***************************************************************************)
(* The storage service and the nodes of its managers.  A storage manager   *)
(* has the number of the tick that built it and the nodes its stores had   *)
(* when it was built; newAliveService starts the aliveLoop of the manager. *)
(***************************************************************************)
RefreshDomains == {"w1", "w2"}

\* newStorageManager: the nodes of the stores are walked into sm.nodes.
managerAt(g, ds) == [gen |-> g, nodes |-> ds]

\* NewStorageService builds the first manager and returns the service by
\* value, which NewServices keeps.
RefreshInit ==
  /\ RefreshRestIdle
  /\ written \in SUBSET RefreshDomains
  /\ started = [store |-> managerAt(0, written)]
  /\ kept = [store |-> managerAt(0, written)]
  /\ ticking = [pc |-> "waiting", newStore |-> Nil, ticks |-> 0]
  /\ pollers = {0}
  /\ seen = Nil

\* A handler registers the node of the domain d: storageService.setNodes,
\* storageManager.setNodes and setNode of the store, which writes the node.
handlerSetNodes(d) ==
  /\ d \notin written
  /\ written' = written \cup {d}
  /\ UNCHANGED <<started, kept, ticking, pollers, seen>>
  /\ UNCHANGED refreshRest

\* A tick of startStorageService: newStorageManager returns an error, or a
\* manager with the nodes of the stores whose aliveLoop has been started.
tickNewManager ==
  /\ ticking.pc = "waiting"
  /\ ticking.ticks < MaxTicks
  /\ \E ok \in BOOLEAN :
       /\ ticking' = [pc |-> "built",
                      newStore |-> IF ok
                                   THEN managerAt(ticking.ticks + 1, written)
                                   ELSE Nil,
                      ticks |-> ticking.ticks + 1]
       /\ pollers' = IF ok THEN pollers \cup {ticking.ticks + 1} ELSE pollers
  /\ UNCHANGED <<written, started, kept, seen>>
  /\ UNCHANGED refreshRest

\* The rest of the tick: the error is logged, or svc.store = newStore.
assignStore ==
  /\ ticking.pc = "built"
  /\ ticking' = [ticking EXCEPT !.pc = "waiting", !.newStore = Nil]
  /\ started' = IF ticking.newStore = Nil THEN started
                ELSE [started EXCEPT !.store = ticking.newStore]
  /\ UNCHANGED <<written, kept, pollers, seen>>
  /\ UNCHANGED refreshRest

\* A handler calls s.store.getNode(d): the node of the manager of the
\* storageService that Services keeps.
handlerGetNode(d) ==
  /\ seen' = [domain |-> d,
              found |-> d \in kept.store.nodes,
              refreshed |-> d \in started.store.nodes]
  /\ UNCHANGED <<written, started, kept, ticking, pollers>>
  /\ UNCHANGED refreshRest

RefreshNext ==
  \/ \E d \in RefreshDomains : handlerSetNodes(d)
  \/ tickNewManager
  \/ assignStore
  \/ \E d \in RefreshDomains : handlerGetNode(d)

RefreshSpec == RefreshInit /\ [][RefreshNext]_vars

(***************************************************************************)
(* Properties of the storage operation.  hop describes the last request    *)
(* handled: the node that served it, the counts after the increment, the   *)
(* time, the next node selected and the response.                          *)
(***************************************************************************)
Handled == "node" \in DOMAIN hop
CompleteResponses == {"return", "postMessage"}
TimedOut == hop.time >= hop.timeStamp + StorageOperationTimeout

\* The nodes a hop may select at random: active storage nodes that have
\* started, other than the node serving the hop and the home node.
Candidates ==
  {d \in Range(network.active) :
     /\ store[d].role = roleStorage
     /\ store[d].starts < hop.time
     /\ d # hop.node
     /\ d # home}

\* done() of the hop, from the nodes and counts.
HopDone ==
  (hop.node = hop.next /\ hop.nv >= 2) \/ hop.nodeCount = hop.nv

\* The condition of the warning page in the done branch.
WarningDue ==
  /\ hop.nodeCount > 1
  /\ HopDone
  /\ ~hop.flags.javaScript
  /\ ~hop.anyCookies

\* C1 as stated: a storage operation created with nodeCount N issues at most
\* N storage requests in total, whatever the responses.
C1_AtMostNodeCountGets == Handled => gets <= hop.nodeCount

\* C1 amended: between the creation, or the following of the retry link of a
\* warning page, and the next warning or complete response at most N storage
\* requests are issued.
C1_AtMostNodeCountGetsPerRun == Handled => run <= hop.nodeCount

C1_Witness ==
  /\ Handled
  /\ retries = 1
  /\ run = hop.nodeCount
  /\ hop.nodeCount = 3
  /\ phase = "complete"

\* C2: with nodeCount >= 2 the first hop and the hop at which nodesVisited
\* equals nodeCount are served by the home node chosen by Create.
C2_FirstAndLastHopAtHome ==
  (Handled /\ hop.nodeCount >= 2 /\ (hop.nv = 1 \/ hop.nv = hop.nodeCount))
    => hop.node = home

C2_Witness ==
  /\ Handled
  /\ hop.nodeCount = 3
  /\ hop.nv = 3
  /\ hop.node = home
  /\ hop.prevServed # home

C4_HomeNodeAlone ==
  (Handled /\ hop.nv = 1 /\ hop.flags.useHomeNode /\ hop.cookiesValid)
    => /\ hop.response \in CompleteResponses
       /\ phase = "complete"
       /\ url = NoURL

C4_Witness ==
  /\ Handled
  /\ hop.nv = 1
  /\ hop.nodeCount >= 2
  /\ hop.flags.useHomeNode
  /\ hop.cookiesValid
  /\ ~TimedOut
  /\ phase = "complete"

\* C5 as stated: a hop whose time stamp has run out selects no next node
\* and responds with complete.
C5_TimedOutCompletes ==
  (Handled /\ TimedOut)
    => /\ hop.next = NoNode
       /\ hop.response \in CompleteResponses

\* C5 amended: a hop whose time stamp has run out selects no next node and
\* never responds with continue; it responds with the warning page exactly
\* when it is the last hop (nodesVisited = nodeCount > 1) of an operation
\* without JavaScript whose request carried no cookies, else with complete.
C5_TimedOutNeverContinues ==
  (Handled /\ TimedOut)
    => /\ hop.next = NoNode
       /\ hop.response # "continue"
       /\ hop.response = "warning" <=>
            (/\ hop.nodeCount > 1
             /\ hop.nv = hop.nodeCount
             /\ ~hop.flags.javaScript
             /\ ~hop.anyCookies)
       /\ hop.response # "warning" => hop.response \in CompleteResponses

C5_Witness ==
  /\ Handled
  /\ TimedOut
  /\ hop.nv < hop.nodeCount
  /\ hop.response = "return"

\* C6: in the done branch the warning page is sent exactly when nodeCount > 1,
\* done(), no JavaScript and no cookie in the request; its retry link holds
\* an operation for the home node with nodesVisited 0 and the time stamp of
\* the hop; every other case is complete.
C6_WarningOrComplete ==
  (Handled /\ hop.branch = "done")
    => /\ hop.response = "warning" <=> WarningDue
       /\ hop.response = "warning" =>
            /\ url.host = home
            /\ url.op.nodesVisited = 0
            /\ url.op.timeStamp = hop.time
       /\ hop.response # "warning" => hop.response \in CompleteResponses

C6_Witness ==
  /\ Handled
  /\ hop.branch = "done"
  /\ hop.response = "warning"
  /\ hop.time > hop.timeStamp
  /\ url.op.timeStamp = hop.time

\* C7 as stated: the response that ends a storage operation is a return to
\* the return URL or a postMessage page.
C7_LastResponseCompletes ==
  phase \in {"warned", "complete"} => hop.response \in CompleteResponses

\* C7 amended: a storage URL that is requested leads to a response that is
\* not a continue, which is the warning page or complete; a complete
\* response is a return to the return URL or a postMessage page.
C7_EndsWithWarningOrComplete ==
  (phase = "inflight") ~>
    \/ phase = "complete" /\ hop.response \in CompleteResponses
    \/ phase = "warned" /\ hop.response = "warning"

C7_Witness ==
  /\ phase = "complete"
  /\ hop.response = "postMessage"
  /\ hop.nv = 3

\* C8: on every hop after the first the operation arrives with prevNode set
\* to the node that served the hop before, and that node is marked alive
\* and accessed at the time of the hop.
C8_PassiveAlive ==
  (Handled /\ hop.nv >= 2)
    => /\ hop.arrivedPrev = hop.prevServed
       /\ alive[hop.prevServed]
       /\ accessed[hop.prevServed] = hop.time

\* Pair p is pair q as the URL and the Results carry it.
Carries(p, q) ==
  /\ p.key = q.key
  /\ p.conflict = q.conflict
  /\ p.created = q.created
  /\ p.expires = q.expires
  /\ p.value = q.value

\* The pair of index i that the hop resolved is the pair it arrived with.
SamePair(i) == Carries(hop.arrived[i], hop.resolved[i])

\* The pair of index i that the hop resolved is the cookie of its node.
FromCookie(i) == hop.resolved[i] = hop.cookies[hop.arrived[i].key]

\* The Results of a complete response hold the resolved pair of index i.
InResults(i) ==
  /\ "pairs" \in DOMAIN hop.results
  /\ Carries(hop.results.pairs[i], hop.resolved[i])

\* C11 as stated: for a key created with the newest policy, after a hop took
\* a cookie pair newer than the pair of the operation every later hop carries
\* the pair it arrived with or a strictly newer cookie pair of its node, and
\* the Results of the complete response contain the pair.
C11_NewestPropagates ==
  Handled =>
    \A i \in 1..Len(hop.arrived) :
      (form[i].conflict = conflictNewest /\ hop.arrived[i].key \in hop.wonBefore)
        => /\ \/ SamePair(i)
              \/ /\ FromCookie(i)
                 /\ hop.resolved[i].created > hop.arrived[i].created
           /\ hop.response \in CompleteResponses => InResults(i)

\* C11 amended: while the pair carried for a key has the newest policy, after
\* a hop took a cookie pair newer than the pair of the operation every later
\* hop carries the pair it arrived with or a cookie pair of its node created
\* at the same time or later; the operation holds a pair for every key of
\* the form, the next URL carries the resolved pair, and so do the Results of
\* a complete response whose time stamp has not run out.
C11_NewestNeverOlder ==
  Handled =>
    /\ Len(hop.arrived) = Len(form)
    /\ \A i \in 1..Len(hop.arrived) :
      (hop.arrived[i].conflict = conflictNewest
         /\ hop.arrived[i].key \in hop.wonBefore)
        => /\ SamePair(i) \/ FromCookie(i)
           /\ hop.resolved[i].created >= hop.arrived[i].created
           /\ phase \in {"inflight", "warned"}
                => Carries(url.op.pairs[i], hop.resolved[i])
           /\ (hop.response \in CompleteResponses /\ ~TimedOut)
                => InResults(i)

C11_Witness ==
  /\ Handled
  /\ hop.nv = 3
  /\ hop.response \in CompleteResponses
  /\ \E i \in 1..Len(hop.arrived) :
       /\ hop.arrived[i].conflict = conflictNewest
       /\ hop.arrived[i].key \in hop.wonBefore
       /\ FromCookie(i)
       /\ ~SamePair(i)
       /\ hop.resolved[i].created = hop.arrived[i].created
       /\ InResults(i)

\* The response of the hop set the cookie of its node for the resolved pair
\* of index i.
Written(i) ==
  /\ i \in DOMAIN hop.set
  /\ hop.set[i] # Nil
  /\ hop.set[i].cookieWriteTime = hop.time
  /\ Carries(hop.set[i], hop.resolved[i])

\* C12: a hop that responds with continue or with the return to the return
\* URL, to a browser that stores cookies, writes the cookie of a resolved
\* pair exactly when the pair is not empty.
C12_CookieIffNotEmpty ==
  (Handled /\ hop.response \in {"continue", "return"} /\ cookiesOn)
    => \A i \in 1..Len(hop.resolved) :
         Written(i) <=> hop.resolved[i].value # <<>>

C12_Witness ==
  /\ Handled
  /\ hop.response = "continue"
  /\ cookiesOn
  /\ Len(hop.resolved) = 2
  /\ \E i, j \in 1..2 :
       /\ Written(i)
       /\ hop.resolved[j].value = <<>>
       /\ ~Written(j)
       /\ hop.cookies[hop.resolved[i].key] = Nil

\* The node of the hop held a cookie for the resolved pair of index i.
HasCookie(i) == hop.cookies[hop.resolved[i].key] # Nil

\* The earliest cookie write time among the resolved pairs that have a cookie
\* on the node of the hop; the time of the hop when there is none.
Earliest ==
  LET w == {hop.cookies[hop.resolved[i].key].cookieWriteTime :
              i \in {j \in 1..Len(hop.resolved) : HasCookie(j)}}
              \cap 1..(hop.time - 1)
  IN IF w = {} THEN hop.time ELSE Min(w)

DistinctKeys(ps) ==
  \A i, j \in 1..Len(ps) : i # j => ps[i].key # ps[j].key

\* C14: the keys of the pairs are pairwise distinct in the operation Create
\* makes from the form, and in the operation every later hop of the bounce
\* receives, resolves and sends on.
C14_PairKeysDistinct ==
  /\ DistinctKeys(form)
  /\ phase \in {"inflight", "warned"} => DistinctKeys(url.op.pairs)
  /\ Handled => (DistinctKeys(hop.arrived) /\ DistinctKeys(hop.resolved))

\* C15: for every requested node count that setCount accepts and every ring
\* Create can go on with (one that is not empty), the nodeCount of the
\* operation lies in [1, min(requested, ring size)].
C15_NodeCountInRange ==
  (/\ countOut # Nil
   /\ "nodeCount" \in DOMAIN countOut
   /\ countForm # <<>>
   /\ Len(countRing.hash) > 0)
    => countOut.nodeCount \in 1..Min({countForm[1], Len(countRing.hash)})

\* A lookup of the home node was made.
LookedUp == lookup # Nil

\* The hashes of the nodes of the ring of ns are pairwise distinct.
RingDistinct(ns) ==
  \A i, j \in 1..Len(ns.hash) :
    i # j => store[ns.hash[i]].hash # store[ns.hash[j]].hash

\* C16 as stated: two collections built independently from the same set of
\* nodes return the same home node for every client address.
C16_SameHomeNode ==
  (LookedUp /\ Range(network.all) = Range(other.all))
    => lookup.node = lookup.otherNode

\* C16: two collections built independently from the same set of nodes,
\* whose rings hold the same nodes with pairwise distinct hashes, return the
\* same home node for every client address.
C16_SameHomeNodeOfSameRing ==
  (/\ LookedUp
   /\ Range(network.all) = Range(other.all)
   /\ Range(network.hash) = Range(other.hash)
   /\ RingDistinct(network))
    => lookup.node = lookup.otherNode

C16_Witness ==
  /\ LookedUp
  /\ network.all # other.all
  /\ Range(network.all) = Range(other.all)
  /\ Range(network.hash) = Range(other.hash)
  /\ RingDistinct(network)
  /\ Len(network.hash) = 3
  /\ lookup.node = lookup.otherNode
  /\ lookup.node = network.hash[3]

\* The store of the network has just been built, changed or refreshed.
JustDone == last # Nil /\ lookup = Nil /\ last.at = now

\* active holds exactly the nodes of all that are active.
ActiveExact ==
  /\ Range(network.active) =
       {d \in Range(network.all) : isActive(store[d], now)}
  /\ Len(network.active) = Cardinality(Range(network.active))

\* hash holds exactly the storage nodes of active, in ascending hash order.
HashExact ==
  /\ Range(network.hash) =
       {d \in Range(network.active) : store[d].role = roleStorage}
  /\ Len(network.hash) = Cardinality(Range(network.hash))
  /\ \A i, j \in 1..Len(network.hash) :
       i < j => store[network.hash[i]].hash <= store[network.hash[j]].hash

\* C17 as stated: after every store operation (construction, setNode,
\* refresh) active holds exactly the active nodes of all, and hash exactly
\* the storage nodes of active in ascending hash order.
C17_OrderedAfterEveryOperation ==
  JustDone => (ActiveExact /\ HashExact)

\* C17: after the construction and after every refresh active holds exactly
\* the active nodes of all, and hash exactly the storage nodes of active in
\* ascending hash order.
C17_OrderedAfterRefresh ==
  (JustDone /\ last.op \in {"construct", "refresh"})
    => (ActiveExact /\ HashExact)

C17_Witness ==
  /\ JustDone
  /\ last.op = "refresh"
  /\ Len(network.all) = 3
  /\ Len(network.active) = 2
  /\ Len(network.hash) = 1
  /\ ActiveExact
  /\ HashExact

\* The request of the lookup yields no client address.
NoAddress == getRemoteAddr(lookup.xff, lookup.ra) = <<>>

\* C18 as stated: getHomeNode returns no node whenever the ring is empty or
\* neither X-Forwarded-For nor the remote address yields a client address.
C18_FailsWithoutRingOrAddress ==
  (LookedUp /\ (Len(network.hash) = 0 \/ NoAddress))
    => lookup.node = NoNode

\* C18: getHomeNode returns no node whenever the ring is empty; on a ring
\* that is not empty it returns a node of the ring, also when neither
\* X-Forwarded-For nor the remote address yields a client address, and the
\* hash it then looks up is 0.
C18_FailsOnEmptyRing ==
  LookedUp =>
    /\ Len(network.hash) = 0 => lookup.node = NoNode
    /\ Len(network.hash) > 0 => lookup.node \in Range(network.hash)
    /\ NoAddress => lookup.h = 0

C18_Witness ==
  /\ LookedUp
  /\ Len(network.hash) = 0
  /\ Len(network.active) > 0
  /\ ~NoAddress
  /\ lookup.node = NoNode

\* C19: on a ring whose hashes are pairwise distinct, the index
\* getNodeIndexByHash returns for the hash of the node at an index of the
\* ring is that index.
C19_IndexOfRingHash ==
  (LookedUp /\ RingDistinct(network))
    => \A i \in 1..Len(network.hash) :
         store[network.hash[i]].hash = lookup.h => lookup.i = i - 1

C19_Witness ==
  /\ LookedUp
  /\ RingDistinct(network)
  /\ Len(network.hash) = 3
  /\ store[network.hash[3]].hash = lookup.h
  /\ lookup.i = 2

\* The latest time stamp among the secrets of the node.
Latest == Max({nodeSecrets[i].timeStamp : i \in 1..Len(nodeSecrets)})

\* C20: once the secrets of a node are sorted, the first of them has the
\* latest time stamp, and so has the secret every encryption uses.
C20_NewestSecretFirst ==
  (sorted /\ nodeSecrets # <<>>)
    => /\ nodeSecrets[1].timeStamp = Latest
       /\ used # Nil => used.timeStamp = Latest

\* The pair as it is persisted: every field but the cookie write time.
Persisted(p) == [p EXCEPT !.cookieWriteTime = ZeroTime]

Decoded == received # Nil /\ ~failed(received)

\* C21: the operation read from the bytes of asByteArray(o) equals o on every
\* persisted field: timeStamp, returnURL, accessNode, HTML, nodesVisited,
\* nodeCount, prevNode, homeNode, state and the pairs.
C21_DecodedEqualsWritten ==
  received # Nil
    => /\ ~failed(received)
       /\ received.timeStamp = sent.timeStamp
       /\ received.returnURL = sent.returnURL
       /\ received.accessNode = sent.accessNode
       /\ received.HTML = sent.HTML
       /\ received.nodesVisited = sent.nodesVisited
       /\ received.nodeCount = sent.nodeCount
       /\ received.prevNode = sent.prevNode
       /\ received.homeNode = sent.homeNode
       /\ received.state = sent.state
       /\ Len(received.pairs) = Len(sent.resolved)
       /\ \A i \in 1..Len(sent.resolved) :
            received.pairs[i] = Persisted(sent.resolved[i])

\* C22: the expiry read by readDate is the day writeDate was given, for
\* every expiry a pair carries, the zero time of a pair without a value
\* included.
C22_DateRoundTrip ==
  Decoded
    => \A i \in 1..Len(sent.resolved) :
         received.pairs[i].expires = sent.resolved[i].expires

Returned == at \in {"manager", "error"}

Lists(d, e) ==
  /\ Len(called[d]) = 1
  /\ \E n \in called[d][1] : n.domain = e

\* C23: the construction of the storage manager returns, whatever the share
\* nodes answer, and no share domain is called more than once.
C23_ReturnsCallingOnce ==
  /\ <>Returned
  /\ [](\A d \in ShareDomains : Len(called[d]) <= 1)

\* Two share nodes that list each other were called and the manager built.
C23_Witness ==
  /\ at = "manager"
  /\ Lists("h1", "h2")
  /\ Lists("h2", "h1")

Discovered == {i \in 1..Len(sts) : sts[i].name \in Range(volatileNames)}

\* C24: the construction returns an error, and no manager, when the stores
\* configured and discovered are more than maxStores; the manager it returns
\* otherwise holds all of them, at most maxStores.
C24_ErrorOrAtMostMaxStores ==
  /\ at = "manager"
       => /\ built.stores = sts
          /\ Len(built.stores) <= maxStores
  /\ at = "error" => (built = Nil /\ Len(sts) > maxStores)

\* A manager with as many stores as allowed, one of them discovered.
C24_Witness ==
  /\ at = "manager"
  /\ Len(built.stores) = maxStores
  /\ Discovered # {}

\* C24 as stated: the construction always completes with a manager of at
\* most maxStores stores.
C24_AlwaysAManager ==
  Returned => (at = "manager" /\ Len(built.stores) <= maxStores)

Called(op) == reply # Nil /\ reply.op = op

NodesOfStores(bs) == UNION {Range(bs[i].nodes) : i \in 1..Len(bs)}

\* C25: getAllActiveNodes returns, without an error, the nodes of all the
\* stores that are alive and have started, whatever the other nodes are.
C25_ActiveNodesWithoutError ==
  Called("getAllActiveNodes")
    => /\ ~reply.err
       /\ Range(reply.value) =
            {n \in NodesOfStores(reply.before) : n.alive /\ n.starts <= now}

\* What each store of the manager answers to the query of the last getNodes.
Answer(i) == getNodesOfStore(reply.before[i], reply.network)

Answering ==
  {i \in 1..Len(reply.before) : ~Answer(i).err /\ Answer(i).value # Nil}

\* C26: when a store returns an error to getNodes, the manager skips it and
\* answers with the nodes of the first of the other stores that has the
\* network.
C26_SkipsFailingStore ==
  (/\ Called("getNodes")
   /\ \E i \in 1..Len(reply.before) : Answer(i).err
   /\ Answering # {})
    => /\ ~reply.err
       /\ reply.value = Answer(Min(Answering)).value

\* The writable stores that match the store name of the last setNodes.
Matching ==
  {i \in 1..Len(reply.before) :
     /\ ~reply.before[i].readOnly
     /\ reply.store = "" \/ reply.before[i].name = reply.store}

Holds(s, n) ==
  IF s.kind = "volatile"
  THEN n.domain \in DOMAIN s.nodes /\ s.nodes[n.domain] = n
  ELSE n.domain \in DOMAIN s.saved /\ s.saved[n.domain] = n

\* C27: setNodes writes the nodes to the one writable store that matches the
\* store name, or to the only writable store when the name is empty, and
\* to no other store; with no such store or several it returns an error and
\* leaves every store as it was.
C27_WritesToTheOneStore ==
  Called("setNodes")
    => /\ Cardinality(Matching) # 1 => (reply.err /\ backends = reply.before)
       /\ \A w \in Matching :
            Cardinality(Matching) = 1
              => /\ \A i \in 1..Len(backends) :
                      i # w => backends[i] = reply.before[i]
                 /\ (reply.nodes # <<>> /\ reply.before[w].available)
                      => /\ ~reply.err
                         /\ \A j \in 1..Len(reply.nodes) :
                              Holds(backends[w], reply.nodes[j])
                 /\ reply.err => backends = reply.before

\* Two nodes were written to the only writable store of two, no name given.
C27_Witness ==
  /\ Called("setNodes")
  /\ ~reply.err
  /\ reply.store = ""
  /\ Len(reply.nodes) = 2
  /\ \E i \in 1..Len(reply.before) : reply.before[i].readOnly
  /\ backends # reply.before

\* C28: a request that reads the nodes and the networks of a store while the
\* store refreshes finds both maps of the same generation.
C28_SameGeneration ==
  (reader # Nil /\ reader.nodes # NotRead /\ reader.networks # NotRead)
    => reader.nodes = reader.networks

\* C29: every lookup of a request uses the storage manager its first lookup
\* used, whether or not the refresher assigned a new manager meanwhile.
C29_OneSnapshot ==
  request # Nil =>
    \A i \in DOMAIN request.used : request.used[i] = request.used[1]

\* A request finished all four lookups and the refresher assigned a new
\* manager between its first and its last.
C29_Witness ==
  /\ request # Nil
  /\ Len(request.used) = Len(lookups)
  /\ request.swapped

\* The node was last accessed at least one polling interval before t.
Old(n, t) == n.accessed = ZeroTime \/ t - n.accessed >= pollingInterval

\* The turn of node d in the tick: the poller takes it from the nodes to poll.
Turn(d) == loop # Nil /\ d \in loop.todo /\ d \notin loop'.todo

\* The call of the alive endpoint returns.
Returns == poll # Nil /\ poll.pc = "calling" /\ poll'.pc = "returned"

Echoed(p) == ~failed(p.reply) /\ p.reply.body = p.nonce

\* C30: in a tick every node last accessed a polling interval ago or more is
\* polled, and when its poll is over it is alive exactly if the peer returned
\* the nonce, then with accessed set to the time; a node accessed more
\* recently is left as it is, as is every node whose turn it is not.
C30_AliveIffEchoed ==
  [][/\ \A d \in PollDomains : Turn(d) =>
          /\ \A e \in PollDomains \ {d} : known'[e] = known[e]
          /\ IF Old(known[d], clock)
               THEN \/ /\ poll'.pc = "calling"
                       /\ poll'.domain = d
                       /\ known'[d] = known[d]
                    \/ /\ poll'.pc = "returned"
                       /\ poll'.domain = d
                       /\ ~Echoed(poll')
                       /\ ~known'[d].alive
               ELSE known'[d] = known[d] /\ poll' = poll
     /\ Returns =>
          /\ \A e \in PollDomains \ {poll.domain} : known'[e] = known[e]
          /\ known'[poll.domain].alive <=> Echoed(poll')
          /\ Echoed(poll') => known'[poll.domain].accessed = clock'
          /\ ~Echoed(poll') =>
               known'[poll.domain].accessed = known[poll.domain].accessed
    ]_vars

\* A poll is over, the peer returned the nonce, and the node is alive and
\* accessed now while the other node was not polled in this tick, having been
\* accessed within the polling interval.
C30_Witness ==
  /\ poll # Nil
  /\ poll.pc = "returned"
  /\ Echoed(poll)
  /\ known[poll.domain] = [alive |-> TRUE, accessed |-> clock]
  /\ loop.pc = "polling"
  /\ loop.todo = {}
  /\ \E e \in PollDomains \ {poll.domain} :
       /\ known[e].accessed # ZeroTime
       /\ known[e].accessed < clock
       /\ ~Old(known[e], clock)

\* C31: once a registration of a domain was stored, the record of its node
\* and its secrets in the store stay as that registration left them.
C31_ReRegistrationNoOp ==
  first # Nil =>
    \A d \in RegDomains : first[d] # Nil =>
      /\ disk.nodes[d] = first[d].node
      /\ disk.secrets[d] = first[d].secrets

\* Create made an operation.
Created == creation # Nil /\ ~failed(creation.out)

\* C32: the access node of an operation that Create made is a known node
\* with the role access, of the network of the creating access node.
C32_AccessNodeIsAccess ==
  Created =>
    LET n == registry[creation.out.accessNode]
    IN /\ n # Nil
       /\ n.role = roleAccess
       /\ n.network = registry[creation.host].network

\* The place of a kind of step in the order of the hop.
Place(k) ==
  CASE k = "harvest" -> 1
    [] k = "resolve" -> 2
    [] k = "select" -> 3
    [] k = "write" -> 4
    [] k = "respond" -> 5

\* C33: in a hop no step comes before a step of an earlier kind, the kinds
\* being cookie harvesting, conflict resolution, next-node selection, cookie
\* write and response emission.
C33_StrictOrder ==
  \A a, b \in DOMAIN log : a < b => Place(log[a][1]) <= Place(log[b][1])

\* C33 amended: the cookie of each pair is harvested before its conflict is
\* resolved, the pairs being taken one after the other, and all of that comes
\* before next-node selection, then cookie write, then response emission.
C33_StepsInOrder ==
  \A a, b \in DOMAIN log : a < b =>
    \/ Place(log[a][1]) <= Place(log[b][1])
    \/ /\ log[a][1] = "resolve"
       /\ log[b][1] = "harvest"
       /\ log[a][2] < log[b][2]

\* A hop in which all five kinds of step were taken, for two pairs.
C33_Witness ==
  /\ Len(log) >= 6
  /\ \A k \in {"harvest", "resolve", "select", "write", "respond"} :
       \E a \in DOMAIN log : log[a][1] = k
  /\ \E a \in DOMAIN log : log[a] = <<"resolve", 2>>

\* C34: a browser that accepts and returns cookies is never sent the warning
\* page: no request of such a browser is answered with it.
C34_NoWarningWithCookies ==
  [][(cookiesOn /\ gets' # gets) => hop'.response # "warning"]_vars

(***************************************************************************)
(* Properties of the conflict resolution.                                  *)
(***************************************************************************)
Resolved == pr # Nil

\* C9: under newest the resolved pair is the operation pair exactly when it
\* was created after the cookie pair; under oldest exactly when it was
\* created before it.
C9_NewestOldest ==
  Resolved =>
    /\ po.conflict = conflictNewest => (pr = po <=> po.created > pc.created)
    /\ po.conflict = conflictOldest => (pr = po <=> po.created < pc.created)

C9_Witness ==
  /\ Resolved
  /\ po.conflict = conflictNewest
  /\ po.created = pc.created
  /\ pr = pc

\* The values of a pair: the words of its value.
Values(p) == IF p.value = <<>> THEN <<>> ELSE Split(p.value, pairListSeparator)

RECURSIVE Distinct(_)
Distinct(v) ==
  IF Len(v) = 0 THEN <<>>
  ELSE LET f == Distinct(SubSeq(v, 1, Len(v) - 1))
       IN IF v[Len(v)] \in Range(f) THEN f ELSE Append(f, v[Len(v)])

\* C10: under add the values of the resolved pair are the distinct union of
\* the values of the operation pair and of the cookie pair, the operation
\* pair's first, and none twice.
C10_AddIsDistinctUnion ==
  (Resolved /\ po.conflict = conflictAdd)
    => Values(pr) = Distinct(Values(po) \o Values(pc))

\* C35: a value-less pair of any policy, resolved against a cookie of its key
\* that has values, gives a pair with the values of the cookie.
C35_ProbeCarriesCookieValues ==
  (Resolved /\ po \in ProbePairs /\ ~isEmpty(pc))
    => Range(Values(pr)) = Range(Values(pc))

\* C36: a hop that completes the operation, by the return to the return URL
\* or by a postMessage page, to a browser that stores cookies, has written
\* the cookie of every resolved pair that is not empty.
C36_CompletionWritesCookies ==
  (Handled /\ phase = "complete" /\ hop.response \in CompleteResponses
     /\ cookiesOn)
    => \A i \in 1..Len(hop.resolved) :
         hop.resolved[i].value # <<>> => Written(i)

\* C37: when getNodes returns the nodes of a network, every node the manager
\* has by domain with that network is in the dict of the nodes returned,
\* under its domain.
C37_NodeInItsNetwork ==
  (reply # Nil /\ reply.op = "getNodes" /\ ~reply.err)
    => \A d \in DOMAIN sm.nodes :
         sm.nodes[d].network = reply.network
           => /\ reply.value # Nil
              /\ d \in DOMAIN reply.value.dict
              /\ reply.value.dict[d] = sm.nodes[d]

\* C38: a call of getNodes of a Local store for a network that is not in its
\* nodes file returns, without nodes, unless the network is written to the
\* file during the call.
C38_UnknownNetworkReturns ==
  (stack # <<>> /\ outcome.network \notin nodesFile.networks)
    ~> \/ stack = <<>> /\ outcome.value = Nil
       \/ outcome.network \in nodesFile.networks

\* C39: a handler that asks for the node of a domain that was in the store
\* when the manager of the last refresh was built gets the node.
C39_VisibleAfterRefresh ==
  (seen # Nil /\ seen.refreshed) => seen.found

\* C40: between the ticks of the refresher the aliveLoop of at most one
\* storage manager is running.
C40_OnePoller ==
  ticking.pc = "waiting" => Cardinality(pollers) <= 1

====
